---- MODULE Spec2Model ----
(***************************************************************************)
(* Page Picks: line-hit analytics.                                         *)
(*                                                                         *)
(* The repository answers "how often did a player reach a line" in two     *)
(* stacks that read the same kind of stored data:                          *)
(*   - working_api.py: FastAPI handlers that run SQL on nfl_analytics.db   *)
(*     (definitions prefixed Api_);                                        *)
(*   - services/analytics_service.py behind routers/players.py and         *)
(*     routers/analytics.py: an ORM service (definitions prefixed Svc_     *)
(*     and Router_).                                                       *)
(* The stored tables are the variables; each handler is one action that    *)
(* records the request in req and the answer in resp.                      *)
(* update_2025_and_injuries.py, the batch script that reloads the 2025     *)
(* stats, and the week loop of NFLDataService.get_recent_games run step by *)
(* step: pc is the position, run the inputs and the record of the run.     *)
(*                                                                         *)
(* Numbers: stat values, lines, averages and percentages are fixed-point   *)
(* integers in hundredths (125.5 is 12550, 50.0 % is 5000), so that        *)
(* round(x, 2) is a rounding of an exact quotient to an integer.           *)
(* Names used by the ORM modules but not imported there (Game, get_db)     *)
(* are taken to resolve to models.Game and the session provider.           *)
(***************************************************************************)
EXTENDS Integers, Sequences, FiniteSets, TLC

(* ------------------------------ bounds -------------------------------- *)
\* stored games in the small databases
MaxGames == 2
\* stored players in the group databases
MaxPlayers == 2
\* players the remote API can list
MaxRemote == 2
\* largest explicit games_back / min_games / limit a request carries
MaxGamesBack == 2
\* stat records one run of the update script extracts
MaxRecords == 2

(* ------------------------- program constants -------------------------- *)
\* hundredths: the unit of round(x, 2)
Scale == 100
\* games_back: int = Query(20, ...)
DefaultGamesBack == 20
\* limit: int = Query(20, ...) of the trending endpoints
DefaultTrendingLimit == 20
\* limit: int = Query(100, ...) of get_best_picks
DefaultPicksLimit == 100
\* weeks: int = 20 of NFLDataService.get_recent_games
DefaultWeeks == 20
\* "NFL regular season has 18 weeks"
SeasonWeeks == 18

VARIABLES
    players,            \* player_id -> [position, team]          (table players)
    games,              \* game_id -> [game_date, season]         (table games)
    player_game_stats,  \* <<player_id, game_id>> -> stat row     (player_game_stats / player_stats)
    team_changes,       \* set of player_id                       (table team_changes)
    injured_players,    \* set of player_id                       (table injured_players)
    excluded_players,   \* set of [player_id, active]             (table excluded_players)
    scan_order,         \* order in which the store yields rows a query leaves unordered
    nfl_api,            \* the remote NFL API: whether it answers, and its player list
    autoflush,          \* whether the ORM session flushes pending rows before a query
    conn,               \* the sqlite3 connection of the last working_api request
    pc,                 \* where the update script stands
    sql,                \* the committed rows of nfl_analytics.db the update script writes
    tx,                 \* the rows as the script's open transaction sees them
    run,                \* the inputs of the script's run and the calls main() has made
    req,                \* the last request
    resp                \* the answer to it

vars == <<players, games, player_game_stats, team_changes, injured_players,
          excluded_players, scan_order, nfl_api, autoflush, conn, pc, sql, tx, run,
          req, resp>>

\* the state of the update script
script == <<pc, sql, tx, run>>

db == <<players, games, player_game_stats, team_changes, injured_players,
        excluded_players, scan_order, nfl_api, autoflush>>

(* ------------------------------ values -------------------------------- *)
\* a nullable column: <<>> is NULL / None, <<v>> holds v
Null == <<>>
Some(v) == <<v>>
IsNull(x) == x = <<>>
Coalesce(x, d) == IF x = <<>> THEN d ELSE x[1]

Min(a, b) == IF a <= b THEN a ELSE b

RECURSIVE SeqSum(_)
SeqSum(s) == IF s = <<>> THEN 0 ELSE Head(s) + SeqSum(Tail(s))

\* Python round(num/den, 2) with num/den in hundredths already: nearest integer,
\* an exact half goes to the even neighbour.
PyRound(num, den) ==
    LET q == num \div den
        r == num % den
    IN  IF 2 * r < den THEN q
        ELSE IF 2 * r > den THEN q + 1
        ELSE IF q % 2 = 0 THEN q ELSE q + 1

\* SQLite ROUND(num/den): nearest integer, an exact half goes away from zero.
SqlRound(num, den) ==
    LET q == num \div den
        r == num % den
    IN  IF 2 * r >= den THEN q + 1 ELSE q

(* --------------------------- stored order ----------------------------- *)
\* ORDER BY game_date DESC; rows with equal dates come in the store's order.
DateBefore(g, h) ==
    \/ games[g].game_date > games[h].game_date
    \/ /\ games[g].game_date = games[h].game_date
       /\ IF scan_order = "asc" THEN g < h ELSE g > h

\* ROW_NUMBER() OVER (ORDER BY g.game_date DESC) within the row set S
RowNumber(S, g) == 1 + Cardinality({h \in S : DateBefore(h, g)})

\* the game ids of S as the sequence ORDER BY game_date DESC yields
ByDateDesc(S) ==
    [i \in 1..Cardinality(S) |-> CHOOSE g \in S : RowNumber(S, g) = i]

\* the ids of S in descending order (ORDER BY game_id DESC)
ByIdDesc(S) ==
    [i \in 1..Cardinality(S) |-> CHOOSE g \in S : Cardinality({h \in S : h > g}) = i - 1]

\* the ids of S in the order a query without ORDER BY yields them
Scan(S) ==
    [i \in 1..Cardinality(S) |->
        CHOOSE g \in S :
            IF scan_order = "asc"
            THEN Cardinality({h \in S : h < g}) = i - 1
            ELSE Cardinality({h \in S : h > g}) = i - 1]

(* ----------------------------- answers -------------------------------- *)
\* a returned body (HTTP 200) and a raised HTTPException / uncaught exception
Ok(body) == [status |-> 200, body |-> body]
Http(status, detail) == [status |-> status, detail |-> detail]

(* ====================================================================== *)
(* working_api.py                                                         *)
(* ====================================================================== *)
\* the columns of player_game_stats the model carries
StatColumns == {"receiving_yards", "rushing_yards"}

\* the stat types whose SQL text names existing columns
ApiStatTypes == StatColumns \cup {"total_yards"}

\* a variant whose total_yards expression leaves the rushing yards out
get_stat_column_receiving_only(stat_type, pgs) ==
    IF stat_type = "total_yards"
    THEN Some(Coalesce(pgs.receiving_yards, 0))
    ELSE pgs[stat_type]

\* the value of the SQL column expression on the stat row pgs (nullable)
get_stat_column(stat_type, pgs) ==
    IF stat_type = "total_yards"
    THEN Some(Coalesce(pgs.receiving_yards, 0) + Coalesce(pgs.rushing_yards, 0))
    ELSE pgs[stat_type]

\* the WHERE condition on the stat row pgs
get_stat_condition(stat_type, pgs) ==
    IF stat_type = "total_yards"
    THEN ~IsNull(pgs.receiving_yards) \/ ~IsNull(pgs.rushing_yards)
    ELSE ~IsNull(pgs[stat_type])

\* the rows of the CTE last_games, named by their game: the player's stat rows
\* joined to games, with the stat present and the season in (2024, 2025)
Api_last_games(player_id, stat_type) ==
    {g \in DOMAIN games :
        /\ <<player_id, g>> \in DOMAIN player_game_stats
        /\ get_stat_condition(stat_type, player_game_stats[<<player_id, g>>])
        /\ games[g].season \in {2024, 2025}}

\* SELECT ... FROM last_games WHERE rn <= ? ORDER BY rn
\* (game_id is not selected by the query; the model keeps it to name the row)
Api_results(player_id, stat_type, line_value, games_back) ==
    LET S == Api_last_games(player_id, stat_type)
        ord == ByDateDesc(S)
    IN  [i \in 1..Min(games_back, Cardinality(S)) |->
            LET v == get_stat_column(stat_type, player_game_stats[<<player_id, ord[i]>>])[1]
            IN  [stat_value |-> v,
                 game_date |-> games[ord[i]].game_date,
                 season |-> games[ord[i]].season,
                 rn |-> i,
                 hit |-> IF v >= line_value THEN 1 ELSE 0,
                 game_id |-> ord[i]]]

\* a variant that leaves the rate a fraction of 1
Api_hit_rate_of_one(hits, games_analyzed) ==
    IF games_analyzed > 0 THEN PyRound(hits * Scale, games_analyzed) ELSE 0

\* (hits / games_analyzed) * 100 if games_analyzed > 0 else 0, then round(.., 2)
Api_hit_rate(hits, games_analyzed) ==
    IF games_analyzed > 0 THEN PyRound(hits * 100 * Scale, games_analyzed) ELSE 0

\* sum(row[0]) / games_analyzed if games_analyzed > 0 else 0, then round(.., 2)
Api_average(rows, games_analyzed) ==
    IF games_analyzed > 0
    THEN PyRound(SeqSum([i \in DOMAIN rows |-> rows[i].stat_value]), games_analyzed)
    ELSE 0

\* GET /api/players/{player_id}/analysis
Api_get_player_analysis(player_id, stat_type, line_value, games_back) ==
    IF player_id \notin DOMAIN players
    THEN Http(404, "Player not found")
    ELSE IF stat_type \notin ApiStatTypes
    THEN Http(500, "no such column")
    ELSE
    LET results == Api_results(player_id, stat_type, line_value, games_back)
        games_analyzed == Len(results)
        hits == SeqSum([i \in DOMAIN results |-> results[i].hit])
        games_2025 == SelectSeq(results, LAMBDA row : row.season = 2025)
        games_2025_count == Len(games_2025)
        hits_2025 == SeqSum([i \in DOMAIN games_2025 |-> games_2025[i].hit])
    IN  IF results = <<>>
        THEN Http(404, "No stats found for this player/stat combination")
        ELSE Ok([player_id |-> player_id,
                 stat_type |-> stat_type,
                 line_value |-> line_value,
                 games_analyzed |-> games_analyzed,
                 hits |-> hits,
                 hit_rate |-> Api_hit_rate(hits, games_analyzed),
                 average_value |-> Api_average(results, games_analyzed),
                 games |-> [i \in DOMAIN results |->
                              [season |-> results[i].season,
                               game_date |-> results[i].game_date,
                               stat_value |-> results[i].stat_value,
                               hit |-> results[i].hit = 1,
                               game_number |-> results[i].rn,
                               game_id |-> results[i].game_id]],
                 season_2025 |->
                    [games_analyzed |-> games_2025_count,
                     hits |-> hits_2025,
                     hit_rate |-> Api_hit_rate(hits_2025, games_2025_count),
                     average_value |-> Api_average(games_2025, games_2025_count)]])

\* GET /api/players/{player_id}
Api_get_player(player_id) ==
    IF player_id \notin DOMAIN players
    THEN Http(404, "Player not found")
    ELSE Ok([player_id |-> player_id,
             position |-> players[player_id].position,
             team |-> players[player_id].team])

\* conn.close() is the last statement before the return: an endpoint that leaves
\* by raise HTTPException, or by an exception of cursor.execute, does not reach it
Api_connection_after(answer) == IF answer.status = 200 THEN "closed" ELSE "open"

(* ----------------------- group queries (SQL) -------------------------- *)
\* p.player_id NOT IN (team_changes UNION injured_players UNION active excluded_players)
Api_excluded_ids ==
    team_changes \cup injured_players
        \cup {e.player_id : e \in {x \in excluded_players : x.active = 1}}

\* a variant that reads the games of every season
Api_group_games_any_season(player_id, stat_type) ==
    {g \in DOMAIN games :
        /\ <<player_id, g>> \in DOMAIN player_game_stats
        /\ get_stat_condition(stat_type, player_game_stats[<<player_id, g>>])}

\* the joined rows of one player that pass the WHERE clause, named by their game
Api_group_games(player_id, stat_type) ==
    {g \in DOMAIN games :
        /\ <<player_id, g>> \in DOMAIN player_game_stats
        /\ get_stat_condition(stat_type, player_game_stats[<<player_id, g>>])
        /\ games[g].season \in {2024, 2025}}

\* SUM(stat_column) over the player's group
Api_group_sum(player_id, stat_type) ==
    LET ord == ByIdDesc(Api_group_games(player_id, stat_type))
    IN  SeqSum([i \in DOMAIN ord |->
            get_stat_column(stat_type, player_game_stats[<<player_id, ord[i]>>])[1]])

\* SUM(CASE WHEN stat_column >= ? THEN 1 ELSE 0 END) over the player's group
Api_group_hits(player_id, stat_type, line_value) ==
    Cardinality({g \in Api_group_games(player_id, stat_type) :
        get_stat_column(stat_type, player_game_stats[<<player_id, g>>])[1] >= line_value})

\* a variant without the division by the number of games
Api_group_hit_rate_undivided(hits, count) == 100 * Scale * hits

\* ROUND(100.0 * hits / COUNT(*), 2)
Api_group_hit_rate(hits, count) == SqlRound(100 * Scale * hits, count)

\* the SELECT list of one group: COUNT(*), hits, hit_rate, ROUND(AVG(stat_column), 1)
Api_group_row(player_id, stat_type, line_value) ==
    LET count == Cardinality(Api_group_games(player_id, stat_type))
        hits == Api_group_hits(player_id, stat_type, line_value)
    IN  [player_id |-> player_id,
         position |-> players[player_id].position,
         team |-> players[player_id].team,
         games_analyzed |-> count,
         hits |-> hits,
         hit_rate |-> Api_group_hit_rate(hits, count),
         average_value |-> SqlRound(Api_group_sum(player_id, stat_type), count * 10) * 10]

\* a variant that asks for more than min_games games
Api_group_players_above_min(candidates, stat_type, min_games) ==
    {p \in candidates :
        /\ p \notin Api_excluded_ids
        /\ Api_group_games(p, stat_type) # {}
        /\ Cardinality(Api_group_games(p, stat_type)) > min_games}

\* the players that form a group: joined to a stat row that passes the WHERE
\* clause, outside the exclusion tables, with HAVING COUNT(*) >= min_games
Api_group_players(candidates, stat_type, min_games) ==
    {p \in candidates :
        /\ p \notin Api_excluded_ids
        /\ Api_group_games(p, stat_type) # {}
        /\ Cardinality(Api_group_games(p, stat_type)) >= min_games}

\* ORDER BY hit_rate DESC, games_analyzed DESC; equal rows in the store's order
Api_row_before(a, b) ==
    \/ a.hit_rate > b.hit_rate
    \/ a.hit_rate = b.hit_rate /\ a.games_analyzed > b.games_analyzed
    \/ /\ a.hit_rate = b.hit_rate
       /\ a.games_analyzed = b.games_analyzed
       /\ IF scan_order = "asc" THEN a.player_id < b.player_id
                                ELSE a.player_id > b.player_id

\* the rows of the set R (one per player) in ORDER BY order
Api_ordered(R) ==
    [i \in 1..Cardinality(R) |->
        CHOOSE a \in R : Cardinality({b \in R : Api_row_before(b, a)}) = i - 1]

\* LIMIT n: the first n rows (a negative LIMIT is no limit in SQLite)
SqlLimit(rows, n) ==
    IF n < 0 THEN rows ELSE SubSeq(rows, 1, Min(n, Len(rows)))

\* GET /api/analytics/trending
Api_get_trending_players(stat_type, line_value, min_games, limit) ==
    IF stat_type \notin ApiStatTypes
    THEN Http(500, "no such column")
    ELSE
    LET R == {Api_group_row(p, stat_type, line_value) :
                p \in Api_group_players(DOMAIN players, stat_type, min_games)}
        trending == SqlLimit(Api_ordered(R), limit)
    IN  Ok([stat_type |-> stat_type,
            line_value |-> line_value,
            trending_players |-> trending,
            count |-> Len(trending)])

\* GET /api/analytics/position/{position}; the SQL text is pgs.{stat_type}, so
\* only a stored column is a valid stat type here
Api_get_position_analysis(position, stat_type, line_value, min_games) ==
    IF stat_type \notin StatColumns
    THEN Http(500, "no such column")
    ELSE
    LET R == {Api_group_row(p, stat_type, line_value) :
                p \in Api_group_players({q \in DOMAIN players : players[q].position = position},
                                        stat_type, min_games)}
        rows == Api_ordered(R)
    IN  Ok([position |-> position,
            stat_type |-> stat_type,
            line_value |-> line_value,
            total_players |-> Len(rows),
            players |-> rows])

\* position_stats of get_best_picks, in dict order, for the stored columns of
\* the model (the passing_yards and receptions entries read columns it leaves out)
position_stats ==
    << [position |-> "QB", stat_type |-> "rushing_yards",
        line_values |-> <<1550, 2050, 2550, 3050, 3550>>],
       [position |-> "WR", stat_type |-> "receiving_yards",
        line_values |-> <<4050, 5050, 6050, 7550, 9050, 10050>>],
       [position |-> "WR", stat_type |-> "rushing_yards",
        line_values |-> <<550, 1050, 1550, 2050>>],
       [position |-> "WR", stat_type |-> "total_yards",
        line_values |-> <<4550, 6050, 7550, 9050, 10550, 12050>>],
       [position |-> "RB", stat_type |-> "rushing_yards",
        line_values |-> <<4050, 5050, 6050, 7550, 9050, 10050>>],
       [position |-> "RB", stat_type |-> "receiving_yards",
        line_values |-> <<1050, 2050, 3050, 4050, 5050>>],
       [position |-> "RB", stat_type |-> "total_yards",
        line_values |-> <<5050, 7050, 9050, 11050, 13050, 15050>>],
       [position |-> "TE", stat_type |-> "receiving_yards",
        line_values |-> <<2550, 3550, 4550, 5550, 6550>>],
       [position |-> "TE", stat_type |-> "total_yards",
        line_values |-> <<2550, 3550, 4550, 5550, 6550>>] >>

\* a variant that keeps only the upper end of the band
Api_line_below_band_top(player_id, stat_type, line_value) ==
    line_value * Cardinality(Api_group_games(player_id, stat_type)) * 100
        <= Api_group_sum(player_id, stat_type) * 125

\* ? >= (AVG(stat_column) * 0.75) AND ? <= (AVG(stat_column) * 1.25)
Api_line_near_average(player_id, stat_type, line_value) ==
    LET sum == Api_group_sum(player_id, stat_type)
        count == Cardinality(Api_group_games(player_id, stat_type))
    IN  /\ line_value * count * 100 >= sum * 75
        /\ line_value * count * 100 <= sum * 125

\* the rows one (position, stat_type, line_value) query of get_best_picks returns
Api_pick_rows(position, stat_type, line_value, min_hit_rate, max_hit_rate, min_games) ==
    LET cand == Api_group_players({q \in DOMAIN players : players[q].position = position},
                                  stat_type, min_games)
        kept == {p \in cand :
                    /\ Api_group_row(p, stat_type, line_value).hit_rate >= min_hit_rate
                    /\ Api_group_row(p, stat_type, line_value).hit_rate <= max_hit_rate
                    /\ Api_line_near_average(p, stat_type, line_value)}
        rows == Api_ordered({Api_group_row(p, stat_type, line_value) : p \in kept})
    IN  [i \in DOMAIN rows |->
            [player_id |-> rows[i].player_id,
             position |-> rows[i].position,
             team |-> rows[i].team,
             stat_type |-> stat_type,
             line_value |-> line_value,
             games_analyzed |-> rows[i].games_analyzed,
             hits |-> rows[i].hits,
             hit_rate |-> rows[i].hit_rate,
             average_value |-> rows[i].average_value]]

\* list.sort(key=hit_rate, reverse=True): descending, equal keys keep their order
SortByHitRateDesc(s) ==
    LET pos(i) == 1 + Cardinality({j \in DOMAIN s : s[j].hit_rate > s[i].hit_rate})
                    + Cardinality({j \in DOMAIN s : j < i /\ s[j].hit_rate = s[i].hit_rate})
    IN  [k \in DOMAIN s |-> s[CHOOSE i \in DOMAIN s : pos(i) = k]]

\* a variant that cuts nothing off
PySlice_whole(s, n) == s

\* s[:n], a Python slice
PySlice(s, n) ==
    IF n >= 0 THEN SubSeq(s, 1, Min(n, Len(s)))
    ELSE SubSeq(s, 1, IF Len(s) + n > 0 THEN Len(s) + n ELSE 0)

\* all_picks after the three nested loops, before the sort
RECURSIVE Api_all_picks(_, _, _, _, _)
Api_all_picks(e, l, min_hit_rate, max_hit_rate, min_games) ==
    IF e > Len(position_stats) THEN <<>>
    ELSE IF l > Len(position_stats[e].line_values)
    THEN Api_all_picks(e + 1, 1, min_hit_rate, max_hit_rate, min_games)
    ELSE Api_pick_rows(position_stats[e].position, position_stats[e].stat_type,
                       position_stats[e].line_values[l],
                       min_hit_rate, max_hit_rate, min_games)
         \o Api_all_picks(e, l + 1, min_hit_rate, max_hit_rate, min_games)

\* GET /api/picks/best
Api_get_best_picks(min_hit_rate, max_hit_rate, min_games, limit) ==
    LET all_picks == SortByHitRateDesc(Api_all_picks(1, 1, min_hit_rate, max_hit_rate, min_games))
        picks == PySlice(all_picks, limit)
    IN  Ok([min_hit_rate |-> min_hit_rate,
            max_hit_rate |-> max_hit_rate,
            min_games |-> min_games,
            picks |-> picks,
            count |-> Len(picks)])

(* ====================================================================== *)
(* services/analytics_service.py                                          *)
(* ====================================================================== *)
\* the members of models.StatType whose columns the model carries
StatType == {"receiving_yards", "rushing_yards"}

\* stat_mapping.get(stat_type): the column of the stat row (nullable)
Svc_extract_stat_value(stat, stat_type) == stat[stat_type]

\* the dict stat_mapping is built whole for every stat type, and its TOUCHDOWNS
\* entry adds the three touchdown columns: None among them raises TypeError
Svc_extract_raises(stat) ==
    \/ IsNull(stat.passing_touchdowns)
    \/ IsNull(stat.rushing_touchdowns)
    \/ IsNull(stat.receiving_touchdowns)

\* query(Game).order_by(Game.game_date.desc()).limit(games_back): the game ids
Svc_get_recent_games(games_back) ==
    LET ord == ByDateDesc(DOMAIN games)
    IN  {ord[i] : i \in 1..Min(games_back, Len(ord))}

\* the player's stat rows in the recent games, by game_id descending, without
\* the rows whose value is None
Svc_get_recent_player_stats(player_id, stat_type, games_back) ==
    LET game_ids == Svc_get_recent_games(games_back)
        stats == ByIdDesc({g \in game_ids : <<player_id, g>> \in DOMAIN player_game_stats})
        value(g) == Svc_extract_stat_value(player_game_stats[<<player_id, g>>], stat_type)
        kept == SelectSeq(stats, LAMBDA g : ~IsNull(value(g)))
    IN  [i \in DOMAIN kept |-> value(kept[i])[1]]

\* the player's stat rows in the recent games joined to their game, by
\* game_date descending
Svc_get_games_breakdown(player_id, stat_type, games_back) ==
    LET game_ids == Svc_get_recent_games(games_back)
        ord == ByDateDesc({g \in game_ids : <<player_id, g>> \in DOMAIN player_game_stats})
    IN  [i \in DOMAIN ord |->
            [game_id |-> ord[i],
             season |-> games[ord[i]].season,
             stat_value |-> Svc_extract_stat_value(player_game_stats[<<player_id, ord[i]>>], stat_type),
             game_date |-> games[ord[i]].game_date]]

\* _get_recent_player_stats and _get_games_breakdown extract from every stat
\* row of the player in the recent games: the analysis raises if one of them does
Svc_raises(player_id, games_back) ==
    \E g \in Svc_get_recent_games(games_back) :
        /\ <<player_id, g>> \in DOMAIN player_game_stats
        /\ Svc_extract_raises(player_game_stats[<<player_id, g>>])

\* the k-th smallest element of the sequence s (sorted(data)[k-1])
KthSmallest(s, k) ==
    CHOOSE x \in {s[i] : i \in DOMAIN s} :
        /\ Cardinality({i \in DOMAIN s : s[i] < x}) < k
        /\ Cardinality({i \in DOMAIN s : s[i] <= x}) >= k

\* round(statistics.median(values), 2)
Svc_median(values) ==
    LET n == Len(values)
    IN  IF n % 2 = 1
        THEN KthSmallest(values, (n \div 2) + 1)
        ELSE PyRound(KthSmallest(values, n \div 2) + KthSmallest(values, (n \div 2) + 1), 2)

\* a variant that cuts the rate off after two decimals instead of rounding it
Svc_hit_rate_truncated(hits, n) == (hits * 100 * Scale) \div n

\* round((hits / len(recent_stats)) * 100, 2)
Svc_hit_rate(hits, n) == PyRound(hits * 100 * Scale, n)

\* a variant with the comparison turned around: a higher line then hits more
Svc_is_hit_inverted(stat, line_value) == stat <= line_value

\* the condition of sum(1 for stat in recent_stats if stat >= line_value)
Svc_is_hit(stat, line_value) == stat >= line_value

\* AnalyticsService.get_player_line_analysis, when no extraction raises
Svc_get_player_line_analysis(player_id, stat_type, line_value, games_back) ==
    LET recent_stats == Svc_get_recent_player_stats(player_id, stat_type, games_back)
        hits == Cardinality({i \in DOMAIN recent_stats : Svc_is_hit(recent_stats[i], line_value)})
    IN  IF recent_stats = <<>>
        THEN [player_id |-> player_id,
              stat_type |-> stat_type,
              line_value |-> line_value,
              games_analyzed |-> 0,
              hit_rate |-> 0,
              total_hits |-> 0,
              average_value |-> 0,
              median_value |-> 0,
              games |-> <<>>]
        ELSE [player_id |-> player_id,
              stat_type |-> stat_type,
              line_value |-> line_value,
              games_analyzed |-> Len(recent_stats),
              hit_rate |-> Svc_hit_rate(hits, Len(recent_stats)),
              total_hits |-> hits,
              average_value |-> PyRound(SeqSum(recent_stats), Len(recent_stats)),
              median_value |-> Svc_median(recent_stats),
              games |-> Svc_get_games_breakdown(player_id, stat_type, games_back)]

\* a variant whose top-level count is the number of lines asked for
Svc_get_multiple_line_analysis_counting_lines(player_id, stat_type, line_values, games_back) ==
    IF line_values = <<>>
    THEN Http(500, "UnboundLocalError")
    ELSE IF Svc_raises(player_id, games_back)
    THEN Http(500, "TypeError")
    ELSE Ok([player_id |-> player_id,
             stat_type |-> stat_type,
             games_analyzed |-> Len(line_values),
             line_analyses |->
                [l \in {line_values[i] : i \in DOMAIN line_values} |->
                    Svc_get_player_line_analysis(player_id, stat_type, l, games_back)]])

\* AnalyticsService.get_multiple_line_analysis; line_analyses is keyed by
\* f"line_{line_value}", one key per distinct line value, modelled by the value.
\* With no line value the name analysis is unbound at the return.
Svc_get_multiple_line_analysis(player_id, stat_type, line_values, games_back) ==
    IF line_values = <<>>
    THEN Http(500, "UnboundLocalError")
    ELSE IF Svc_raises(player_id, games_back)
    THEN Http(500, "TypeError")
    ELSE Ok([player_id |-> player_id,
             stat_type |-> stat_type,
             games_analyzed |->
                Svc_get_player_line_analysis(player_id, stat_type,
                    line_values[Len(line_values)], games_back).games_analyzed,
             line_analyses |->
                [l \in {line_values[i] : i \in DOMAIN line_values} |->
                    Svc_get_player_line_analysis(player_id, stat_type, l, games_back)]])

(* routers/players.py *)
\* GET /{player_id}/line-analysis
Router_get_player_line_analysis(player_id, stat_type, line_value, games_back) ==
    IF stat_type \notin StatType
    THEN Http(400, "Invalid stat type")
    ELSE IF Svc_raises(player_id, games_back)
    THEN Http(500, "TypeError")
    ELSE Ok(Svc_get_player_line_analysis(player_id, stat_type, line_value, games_back))

\* a variant that leaves the last supplied line out
Router_get_multiple_line_analysis_without_last(player_id, stat_type, line_values, games_back) ==
    IF stat_type \notin StatType \/ line_values = <<>>
    THEN Http(400, "Invalid input")
    ELSE Svc_get_multiple_line_analysis(player_id, stat_type,
            SubSeq(line_values, 1, Len(line_values) - 1), games_back)

\* GET /{player_id}/multiple-lines; line_values is the parsed list, and <<>>
\* stands for a query string that does not parse (float('') raises ValueError)
Router_get_multiple_line_analysis(player_id, stat_type, line_values, games_back) ==
    IF stat_type \notin StatType \/ line_values = <<>>
    THEN Http(400, "Invalid input")
    ELSE Svc_get_multiple_line_analysis(player_id, stat_type, line_values, games_back)

(* ------------------------ group operations (ORM) ---------------------- *)
\* the per-player loop of get_position_analysis / get_team_analysis: the
\* analyses of the queried players in query order, those without data dropped
Svc_group_analyses(candidates, stat_type, line_value, games_back) ==
    LET ps == Scan(candidates)
        all == [i \in DOMAIN ps |->
                   LET analysis == Svc_get_player_line_analysis(ps[i], stat_type, line_value, games_back)
                   IN  [player_id |-> ps[i],
                        position |-> players[ps[i]].position,
                        team |-> players[ps[i]].team,
                        hit_rate |-> analysis.hit_rate,
                        games_analyzed |-> analysis.games_analyzed,
                        average_value |-> analysis.average_value]]
    IN  SelectSeq(all, LAMBDA a : a.games_analyzed > 0)

\* AnalyticsService.get_position_analysis
Svc_get_position_analysis(position, stat_type, line_value, games_back) ==
    LET position_analyses ==
            SortByHitRateDesc(Svc_group_analyses(
                {p \in DOMAIN players : players[p].position = position},
                stat_type, line_value, games_back))
    IN  [position |-> position,
         stat_type |-> stat_type,
         line_value |-> line_value,
         total_players |-> Len(position_analyses),
         players |-> [i \in DOMAIN position_analyses |->
                        [player_id |-> position_analyses[i].player_id,
                         team |-> position_analyses[i].team,
                         hit_rate |-> position_analyses[i].hit_rate,
                         games_analyzed |-> position_analyses[i].games_analyzed]]]

\* AnalyticsService.get_team_analysis
Svc_get_team_analysis(team, stat_type, line_value, games_back) ==
    LET team_analyses ==
            SortByHitRateDesc(Svc_group_analyses(
                {p \in DOMAIN players : players[p].team = team},
                stat_type, line_value, games_back))
    IN  [team |-> team,
         stat_type |-> stat_type,
         line_value |-> line_value,
         total_players |-> Len(team_analyses),
         players |-> [i \in DOMAIN team_analyses |->
                        [player_id |-> team_analyses[i].player_id,
                         position |-> team_analyses[i].position,
                         hit_rate |-> team_analyses[i].hit_rate,
                         games_analyzed |-> team_analyses[i].games_analyzed]]]

(* routers/analytics.py *)
\* GET /position/{position}
Router_get_position_analysis(position, stat_type, line_value, games_back) ==
    IF stat_type \notin StatType
    THEN Http(400, "Invalid stat type")
    ELSE IF \E p \in DOMAIN players :
                players[p].position = position /\ Svc_raises(p, games_back)
    THEN Http(500, "TypeError")
    ELSE Ok(Svc_get_position_analysis(position, stat_type, line_value, games_back))

\* GET /team/{team}
Router_get_team_analysis(team, stat_type, line_value, games_back) ==
    IF stat_type \notin StatType
    THEN Http(400, "Invalid stat type")
    ELSE IF \E p \in DOMAIN players :
                players[p].team = team /\ Svc_raises(p, games_back)
    THEN Http(500, "TypeError")
    ELSE Ok(Svc_get_team_analysis(team, stat_type, line_value, games_back))

\* GET /trending
Router_get_trending_players(stat_type, line_value, min_games, games_back, limit) ==
    IF stat_type \notin StatType
    THEN Http(400, "Invalid stat type")
    ELSE IF \E p \in DOMAIN players : Svc_raises(p, games_back)
    THEN Http(500, "TypeError")
    ELSE
    LET ps == Scan(DOMAIN players)
        all == [i \in DOMAIN ps |->
                   LET analysis == Svc_get_player_line_analysis(ps[i], stat_type, line_value, games_back)
                   IN  [player_id |-> ps[i],
                        position |-> players[ps[i]].position,
                        team |-> players[ps[i]].team,
                        hit_rate |-> analysis.hit_rate,
                        games_analyzed |-> analysis.games_analyzed,
                        average_value |-> analysis.average_value]]
        trending_players ==
            PySlice(SortByHitRateDesc(SelectSeq(all, LAMBDA a : a.games_analyzed >= min_games)),
                    limit)
    IN  Ok([stat_type |-> stat_type,
            line_value |-> line_value,
            trending_players |-> trending_players,
            count |-> Len(trending_players)])

\* GET /comparison; player_ids is the parsed id list. A listed id without a
\* stored player is skipped
Router_compare_players(player_ids, stat_type, line_value, games_back) ==
    IF stat_type \notin StatType
    THEN Http(400, "Invalid input")
    ELSE
    LET found == SelectSeq(player_ids, LAMBDA p : p \in DOMAIN players)
    IN  IF \E i \in DOMAIN found : Svc_raises(found[i], games_back)
        THEN Http(500, "TypeError")
        ELSE
        LET all == [i \in DOMAIN found |->
                     LET analysis == Svc_get_player_line_analysis(found[i], stat_type,
                                                                  line_value, games_back)
                     IN  [player_id |-> found[i],
                          position |-> players[found[i]].position,
                          team |-> players[found[i]].team,
                          hit_rate |-> analysis.hit_rate,
                          games_analyzed |-> analysis.games_analyzed,
                          average_value |-> analysis.average_value,
                          total_hits |-> analysis.total_hits]]
            comparisons == SortByHitRateDesc(all)
        IN  Ok([stat_type |-> stat_type,
                line_value |-> line_value,
                comparisons |-> comparisons,
                count |-> Len(comparisons)])

(* ====================================================================== *)
(* services/nfl_data_service.py and the player sync                       *)
(* ====================================================================== *)
\* MockNFLDataService.mock_players (nfl ids "1" and "2")
mock_players ==
    << [id |-> 1, position |-> "WR", team |-> "DAL"],
       [id |-> 2, position |-> "QB", team |-> "BUF"] >>

\* NFLDataService.get_players: the remote list, and [] when the request raises
NFL_get_players == IF nfl_api.up THEN nfl_api.players ELSE <<>>

\* MockNFLDataService.get_players without a team
Mock_get_players == mock_players

\* nfl_service.get_players(): the mock service when no API key is configured
nfl_service_get_players ==
    IF nfl_api.kind = "mock" THEN Mock_get_players ELSE NFL_get_players

\* the loop of sync_players from entry i on: the Player rows added to the
\* session; the lookup by nfl_id sees the pending rows only when the session
\* flushes before the query
RECURSIVE Sync_pending(_, _, _)
Sync_pending(players_data, i, pending) ==
    IF i > Len(players_data) THEN pending
    ELSE LET player_data == players_data[i]
             existing_player ==
                \/ \E p \in DOMAIN players : players[p].nfl_id = player_data.id
                \/ /\ autoflush
                   /\ \E k \in DOMAIN pending : pending[k].nfl_id = player_data.id
         IN  IF existing_player
             THEN Sync_pending(players_data, i + 1, pending)
             ELSE Sync_pending(players_data, i + 1,
                     Append(pending, [nfl_id |-> player_data.id,
                                      position |-> player_data.position,
                                      team |-> player_data.team]))

\* a variant that creates a row for every listed player without the lookup
Router_sync_players_recreating ==
    LET players_data == nfl_service_get_players
        created == [i \in DOMAIN players_data |->
                      [nfl_id |-> players_data[i].id,
                       position |-> players_data[i].position,
                       team |-> players_data[i].team]]
    IN  [resp |-> Ok([synced_count |-> Len(created),
                      total_players |-> Len(players_data)]),
         players |-> players \o created]

\* POST /sync: the answer and the players table after it; two pending rows of
\* one nfl_id break the unique index at commit, which rolls the sync back
Router_sync_players ==
    LET players_data == nfl_service_get_players
        pending == Sync_pending(players_data, 1, <<>>)
        duplicate == \E i, j \in DOMAIN pending :
                        i < j /\ pending[i].nfl_id = pending[j].nfl_id
    IN  IF duplicate
        THEN [resp |-> Http(500, "Error syncing players"), players |-> players]
        ELSE [resp |-> Ok([synced_count |-> Len(pending),
                           total_players |-> Len(players_data)]),
              players |-> players \o pending]

(* ------------------- NFLDataService.get_recent_games ------------------ *)
\* the (season, week) the loop body works out for one week_offset
Nfl_recent_week(current_season, current_week, week_offset) ==
    LET week == current_week - week_offset
    IN  IF week <= 0
        THEN <<current_season - 1, SeasonWeeks + week>>
        ELSE <<current_season, week>>

\* get_games(season, week): "if week:" leaves the week parameter out of the
\* request when week is 0, and the request is then for the whole season
Nfl_get_games_params(season, week) ==
    IF week # 0 THEN [season |-> season, week |-> <<week>>]
    ELSE [season |-> season, week |-> <<>>]

(* ====================================================================== *)
(* update_2025_and_injuries.py                                            *)
(* ====================================================================== *)
\* The script writes nfl_analytics.db through its own connection. sql holds
\* the committed rows of the tables it writes, with the columns it names:
\*   games   rows [game_id, season, week, game_date]
\*   stats   rows [player_id, game_id, record] of player_game_stats; record is
\*           the position in player_stats of the record a row was written
\*           from (0 for a row stored before the run) and is no stored column
\*   injured the player ids of injured_players
\* tx holds the same tables as the open transaction sees them, <<>> when no
\* transaction is open.

\* the DELETE of the player_game_stats rows of the games of season 2025
Upd_delete_2025_stats(t) ==
    [t EXCEPT !.stats =
        SelectSeq(t.stats, LAMBDA r :
            ~ \E i \in DOMAIN t.games :
                t.games[i].game_id = r.game_id /\ t.games[i].season = 2025)]

\* INSERT OR IGNORE INTO games (season, week, game_date), once per stat record
\* from record i on. The row is ignored only when the table has a uniqueness
\* constraint over the three columns and holds them already; game_id is the
\* next rowid
RECURSIVE Upd_insert_games(_, _, _, _)
Upd_insert_games(t, player_stats, i, unique_games) ==
    IF i > Len(player_stats) THEN t
    ELSE LET stat == player_stats[i]
             held == \E k \in DOMAIN t.games :
                        /\ t.games[k].season = stat.season
                        /\ t.games[k].week = stat.week
                        /\ t.games[k].game_date = stat.game_date
         IN  IF unique_games /\ held
             THEN Upd_insert_games(t, player_stats, i + 1, unique_games)
             ELSE Upd_insert_games(
                    [t EXCEPT !.games = Append(t.games,
                        [game_id |-> Len(t.games) + 1, season |-> stat.season,
                         week |-> stat.week, game_date |-> stat.game_date])],
                    player_stats, i + 1, unique_games)

\* the keys of game_mapping
Upd_game_keys(t) ==
    {<<t.games[k].season, t.games[k].week, t.games[k].game_date>> :
        k \in {j \in DOMAIN t.games : t.games[j].season = 2025}}

\* game_mapping[key]: the dict keeps the game_id of the last row the SELECT
\* yields for the key, and the SELECT names no order
Upd_game_mapping(t, key) ==
    LET ids == {t.games[k].game_id :
                    k \in {j \in DOMAIN t.games :
                             /\ t.games[j].season = 2025
                             /\ <<t.games[j].season, t.games[j].week,
                                  t.games[j].game_date>> = key}}
    IN  IF scan_order = "asc"
        THEN CHOOSE g \in ids : \A h \in ids : h <= g
        ELSE CHOOSE g \in ids : \A h \in ids : h >= g

\* the INSERTs INTO player_game_stats from record i on: a record whose key is
\* not in game_mapping is passed over
RECURSIVE Upd_insert_stats(_, _, _)
Upd_insert_stats(t, player_stats, i) ==
    IF i > Len(player_stats) THEN t
    ELSE LET stat == player_stats[i]
             game_key == <<stat.season, stat.week, stat.game_date>>
         IN  IF game_key \in Upd_game_keys(t)
             THEN Upd_insert_stats(
                    [t EXCEPT !.stats = Append(t.stats,
                        [player_id |-> stat.player_id,
                         game_id |-> Upd_game_mapping(t, game_key),
                         record |-> i])],
                    player_stats, i + 1)
             ELSE Upd_insert_stats(t, player_stats, i + 1)

(* ====================================================================== *)
(* stored data and requests                                               *)
(* ====================================================================== *)
GameIds == 1..MaxGames
PlayerIds == 1..MaxPlayers

\* game dates are day numbers: 1 in 2023, 2 in 2024, 3 and later in 2025
Dates == {1, 2, 3}
SeasonOf(date) == IF date = 1 THEN 2023 ELSE IF date = 2 THEN 2024 ELSE 2025

\* stat rows: 125.5 and 89.0 receiving yards (the two games of the mock data
\* source); 45 receiving and 30 rushing yards; a row without either stat
StatRow(receiving_yards, rushing_yards, touchdowns) ==
    [receiving_yards |-> receiving_yards, rushing_yards |-> rushing_yards,
     passing_touchdowns |-> touchdowns, rushing_touchdowns |-> touchdowns,
     receiving_touchdowns |-> touchdowns]

Row125 == StatRow(Some(12550), Null, Some(0))
Row89 == StatRow(Some(8900), Null, Some(0))
Row45 == StatRow(Some(4500), Some(3000), Some(0))
RowNull == StatRow(Null, Null, Some(0))
\* 70.5 receiving yards: an observation equal to a line asked for
Row70 == StatRow(Some(7050), Null, Some(0))
\* 89.0 receiving yards in a row whose touchdown columns are NULL
RowNoTd == StatRow(Some(8900), Null, Null)

GameTable(dates) ==
    [g \in DOMAIN dates |-> [game_date |-> dates[g], season |-> SeasonOf(dates[g])]]

HasDateTie(dates) ==
    \E g, h \in DOMAIN dates : g # h /\ dates[g] = dates[h]

NoRequest == [op |-> "none"]
NoResponse == [status |-> 0]

NothingExcluded ==
    /\ team_changes = {}
    /\ injured_players = {}
    /\ excluded_players = {}

\* the analyses never call the remote API: the mock service, default session
\* the update script is not run
NoScript ==
    /\ pc = "none"
    /\ sql = <<>>
    /\ tx = <<>>
    /\ run = <<>>

SourceUnused ==
    /\ nfl_api = [kind |-> "mock", up |-> TRUE, players |-> <<>>]
    /\ autoflush = TRUE

\* one player with any stat rows in a few games of any dates
InitPlayer ==
    /\ players = (1 :> [position |-> "WR", team |-> "DAL"])
    /\ \E dates \in [GameIds -> Dates] :
        /\ games = GameTable(dates)
        /\ scan_order \in (IF HasDateTie(dates) THEN {"asc", "desc"} ELSE {"asc"})
    /\ \E S \in SUBSET GameIds :
        \E rows \in [S -> {Row89, Row45, RowNull}] :
            player_game_stats = [k \in {<<1, g>> : g \in S} |-> rows[k[2]]]
    /\ NothingExcluded
    /\ SourceUnused
    /\ conn = "none"
    /\ NoScript
    /\ req = NoRequest
    /\ resp = NoResponse

\* a league season: more stored games than the default window, the player's
\* two games (125.5 then 89.0 receiving yards, most recent first) the oldest
InitLeague ==
    /\ players = (1 :> [position |-> "WR", team |-> "DAL"])
    /\ games = GameTable([g \in 1..(DefaultGamesBack + 2) |-> IF g = 1 THEN 2 ELSE 3])
    /\ scan_order = "desc"
    /\ player_game_stats = (<<1, 2>> :> Row125 @@ <<1, 1>> :> Row89)
    /\ NothingExcluded
    /\ SourceUnused
    /\ conn = "none"
    /\ NoScript
    /\ req = NoRequest
    /\ resp = NoResponse

\* one player with a row in every game, in games of different dates, one more
\* game than the small databases hold; a row may lack the touchdown columns
InitAbsentFields ==
    /\ players = (1 :> [position |-> "WR", team |-> "DAL"])
    /\ games = GameTable([g \in 1..(MaxGames + 1) |-> g + 1])
    /\ scan_order = "asc"
    /\ \E rows \in [1..(MaxGames + 1) -> {Row70, Row45, RowNoTd}] :
        player_game_stats = [k \in {<<1, g>> : g \in 1..(MaxGames + 1)} |-> rows[k[2]]]
    /\ NothingExcluded
    /\ SourceUnused
    /\ conn = "none"
    /\ NoScript
    /\ req = NoRequest
    /\ resp = NoResponse

Init == InitPlayer \/ InitLeague \/ InitAbsentFields

\* the stat rows of a group database: player p has profile[p][g] in game g for
\* the games g its profile covers; players past the second repeat the second
ProfileStats(profile) ==
    LET of(p) == IF p <= 2 THEN profile[p] ELSE profile[2]
    IN  [k \in {q \in PlayerIds \X GameIds : q[2] <= Len(of(q[1]))} |-> of(k[1])[k[2]]]

Profiles ==
    UNION {[1..n -> {Row89, Row45}] : n \in 0..MaxGames}

\* profiles of one kind of row
UniformProfiles ==
    {[g \in 1..n |-> r] : n \in 0..MaxGames, r \in {Row89, Row45}}

\* the first game in 2023 or 2024, the later ones in 2025
GroupDates ==
    {[g \in GameIds |-> IF g = 1 THEN d ELSE 3] : d \in {1, 2}}

\* several players of one position and team with games of their own, no exclusion
InitRanking ==
    /\ players = [p \in PlayerIds |-> [position |-> "WR", team |-> "DAL"]]
    /\ \E dates \in GroupDates :
        /\ games = GameTable(dates)
        /\ scan_order \in (IF HasDateTie(dates) THEN {"asc", "desc"} ELSE {"asc"})
    /\ \E first \in Profiles, second \in UniformProfiles :
        player_game_stats = ProfileStats(<<first, second>>)
    /\ NothingExcluded
    /\ SourceUnused
    /\ conn = "none"
    /\ NoScript
    /\ req = NoRequest
    /\ resp = NoResponse

\* several players with a full record, one of them in one exclusion table,
\* the second of any position and team
InitExclusion ==
    /\ \E pos \in {"WR", "RB"}, team \in {"DAL", "BUF"} :
        players = [p \in PlayerIds |->
                      IF p = 2 THEN [position |-> pos, team |-> team]
                      ELSE [position |-> "WR", team |-> "DAL"]]
    /\ games = GameTable([g \in GameIds |-> IF g = 1 THEN 2 ELSE 3])
    /\ scan_order \in (IF MaxGames > 2 THEN {"asc", "desc"} ELSE {"asc"})
    /\ player_game_stats =
        [k \in PlayerIds \X GameIds |-> IF k[1] = 1 THEN Row45 ELSE Row89]
    /\ \E p \in PlayerIds, t \in {"team_changes", "injured_players", "active", "inactive"} :
        /\ team_changes = IF t = "team_changes" THEN {p} ELSE {}
        /\ injured_players = IF t = "injured_players" THEN {p} ELSE {}
        /\ excluded_players =
            CASE t = "active" -> {[player_id |-> p, active |-> 1]}
              [] t = "inactive" -> {[player_id |-> p, active |-> 0]}
              [] OTHER -> {}
    /\ SourceUnused
    /\ conn = "none"
    /\ NoScript
    /\ req = NoRequest
    /\ resp = NoResponse

InitGroup == InitRanking \/ InitExclusion

\* the ids the remote API knows players by
RemoteIds == 1..MaxRemote

\* sequences over S of length at most n
SeqsUpTo(S, n) == UNION {[1..k -> S] : k \in 0..n}

\* a players table filled by earlier syncs, and a remote API that answers with
\* some player list or fails; the session factory is not part of the sources,
\* so either flush setting is possible
InitSync ==
    /\ \E stored \in {q \in SeqsUpTo(RemoteIds, MaxRemote) :
                        \A i, j \in DOMAIN q : i # j => q[i] # q[j]} :
        players = [i \in DOMAIN stored |->
                      [nfl_id |-> stored[i], position |-> "WR", team |-> "DAL"]]
    /\ games = <<>>
    /\ player_game_stats = <<>>
    /\ NothingExcluded
    /\ scan_order = "asc"
    /\ \/ nfl_api = [kind |-> "mock", up |-> TRUE, players |-> <<>>]
       \/ \E up \in BOOLEAN, ids \in SeqsUpTo(RemoteIds, MaxRemote) :
            nfl_api = [kind |-> "remote", up |-> up,
                       players |-> [i \in DOMAIN ids |->
                                      [id |-> ids[i], position |-> "WR", team |-> "DAL"]]]
    /\ autoflush \in BOOLEAN
    /\ conn = "none"
    /\ NoScript
    /\ req = NoRequest
    /\ resp = NoResponse

(* ------------------------ the update script -------------------------- *)
\* the source games of play_by_play_2025.csv and the (week, game_date) of each:
\* two games may be played in one week on one day
SourceGames == {1, 2}
SourceKeys == {<<1, 10>>, <<2, 17>>}

\* the player-game records extract_player_stats can return, for a schedule
ExtractedRecords(schedule) ==
    {[player_id |-> p, game_id |-> g, season |-> 2025,
      week |-> schedule[g][1], game_date |-> schedule[g][2]] :
        p \in 1..MaxPlayers, g \in SourceGames}

\* the tables before the run: empty, or a game of 2024 and a game of 2025
\* with a stat row each
EmptyTables == [games |-> <<>>, stats |-> <<>>, injured |-> {}]
FilledTables ==
    [games |-> << [game_id |-> 1, season |-> 2024, week |-> 1, game_date |-> 5],
                  [game_id |-> 2, season |-> 2025, week |-> 1, game_date |-> 10] >>,
     stats |-> << [player_id |-> 1, game_id |-> 1, record |-> 0],
                  [player_id |-> 1, game_id |-> 2, record |-> 0] >>,
     injured |-> {1}]

\* main() is about to start. A player has one record per week at most. The
\* schema of nfl_analytics.db is not part of the sources, so games may or may
\* not have a uniqueness constraint
InitUpdate ==
    /\ players = <<>>
    /\ games = <<>>
    /\ player_game_stats = <<>>
    /\ NothingExcluded
    /\ SourceUnused
    /\ scan_order \in {"asc", "desc"}
    /\ conn = "none"
    /\ req = NoRequest
    /\ resp = NoResponse
    /\ pc = "start"
    /\ sql \in {EmptyTables, FilledTables}
    /\ tx = <<>>
    /\ \E schedule \in [SourceGames -> SourceKeys], unique_games \in BOOLEAN,
          injuries \in {{}, {2}} :
        \E player_stats \in {q \in SeqsUpTo(ExtractedRecords(schedule), MaxRecords) :
                                \A i, j \in DOMAIN q : i # j =>
                                    \/ q[i].player_id # q[j].player_id
                                    \/ q[i].week # q[j].week} :
            run = [player_stats |-> player_stats, unique_games |-> unique_games,
                   injuries |-> injuries, calls |-> <<>>]

\* request parameters
ReqPlayerIds == DOMAIN players \cup {Cardinality(DOMAIN players) + 1}
ReqStatTypes == {"receiving_yards", "rushing_yards", "total_yards", "sacks"}
LineValues == {4500, 7050, 10000}
ReqGamesBack == {0, 1, MaxGamesBack, DefaultGamesBack}
\* a stat type no endpoint knows is asked for with one choice of the other
\* parameters, and so is a player that is not stored
OneChoice(stat_type, chosen) == IF stat_type \in ApiStatTypes THEN TRUE ELSE chosen
OneChoiceOf(player_id, stat_type, chosen) ==
    IF player_id \in DOMAIN players /\ stat_type \in ApiStatTypes THEN TRUE ELSE chosen

ReqLineLists == {<<>>, <<7050>>, <<4500, 10000>>, <<10000, 4500>>, <<7050, 7050>>}
ReqPlayerLists == {<<1, 2>>, <<Cardinality(DOMAIN players) + 1, 1>>}
ReqMinGames == 1..MaxGamesBack
ReqGroupGamesBack == {1, MaxGamesBack, DefaultGamesBack}
ReqPositions == {"WR", "RB"}
ReqTeams == {"DAL", "BUF"}
ReqHitRates == {<<70 * Scale, 90 * Scale>>, <<50 * Scale, 100 * Scale>>}

(* ------------------------------ actions ------------------------------- *)
\* The handlers read the store and keep nothing between requests, so one
\* request per stored database reaches every answer the program can give.
Idle == req = NoRequest

ApiGetPlayer ==
    /\ Idle
    /\ \E player_id \in ReqPlayerIds :
        /\ req' = [op |-> "Api_get_player", player_id |-> player_id]
        /\ resp' = Api_get_player(player_id)
    /\ UNCHANGED <<db, script>>
    /\ conn' = Api_connection_after(resp')

\* a variant that clears the stat rows of the analysed player
ApiPlayerAnalysis_clearing_rows ==
    /\ Idle
    /\ \E player_id \in ReqPlayerIds, stat_type \in ReqStatTypes,
          line_value \in LineValues, games_back \in ReqGamesBack :
        /\ req' = [op |-> "Api_get_player_analysis", player_id |-> player_id,
                   stat_type |-> stat_type, line_value |-> line_value,
                   games_back |-> games_back]
        /\ OneChoiceOf(player_id, stat_type,
                       line_value = 7050 /\ games_back = DefaultGamesBack)
        /\ resp' = Api_get_player_analysis(player_id, stat_type, line_value, games_back)
        /\ player_game_stats' =
                [k \in {x \in DOMAIN player_game_stats : x[1] # player_id} |->
                    player_game_stats[k]]
    /\ UNCHANGED <<players, games, team_changes, injured_players, excluded_players,
                   scan_order, nfl_api, autoflush, script>>
    /\ conn' = Api_connection_after(resp')

ApiPlayerAnalysis ==
    /\ Idle
    /\ \E player_id \in ReqPlayerIds, stat_type \in ReqStatTypes,
          line_value \in LineValues, games_back \in ReqGamesBack :
        /\ req' = [op |-> "Api_get_player_analysis", player_id |-> player_id,
                   stat_type |-> stat_type, line_value |-> line_value,
                   games_back |-> games_back]
        /\ OneChoiceOf(player_id, stat_type,
                       line_value = 7050 /\ games_back = DefaultGamesBack)
        /\ resp' = Api_get_player_analysis(player_id, stat_type, line_value, games_back)
    /\ UNCHANGED <<db, script>>
    /\ conn' = Api_connection_after(resp')

RouterPlayerLineAnalysis ==
    /\ Idle
    /\ \E player_id \in ReqPlayerIds, stat_type \in ReqStatTypes,
          line_value \in LineValues, games_back \in ReqGamesBack :
        /\ req' = [op |-> "Router_get_player_line_analysis", player_id |-> player_id,
                   stat_type |-> stat_type, line_value |-> line_value,
                   games_back |-> games_back]
        /\ OneChoiceOf(player_id, stat_type,
                       line_value = 7050 /\ games_back = DefaultGamesBack)
        /\ resp' = Router_get_player_line_analysis(player_id, stat_type, line_value, games_back)
    /\ UNCHANGED <<db, script>>
    /\ UNCHANGED conn

RouterMultipleLineAnalysis ==
    /\ Idle
    /\ \E player_id \in ReqPlayerIds, stat_type \in ReqStatTypes,
          line_values \in ReqLineLists, games_back \in ReqGamesBack :
        /\ req' = [op |-> "Router_get_multiple_line_analysis", player_id |-> player_id,
                   stat_type |-> stat_type, line_values |-> line_values,
                   games_back |-> games_back]
        /\ OneChoiceOf(player_id, stat_type,
                       line_values = <<7050>> /\ games_back = DefaultGamesBack)
        /\ IF games_back \in {1, DefaultGamesBack} THEN TRUE
           ELSE line_values = <<4500, 10000>>
        /\ resp' = Router_get_multiple_line_analysis(player_id, stat_type, line_values, games_back)
    /\ UNCHANGED <<db, script>>
    /\ UNCHANGED conn

ApiTrendingPlayers ==
    /\ Idle
    /\ \E stat_type \in ReqStatTypes, line_value \in LineValues,
          min_games \in ReqMinGames, limit \in {1, DefaultTrendingLimit} :
        /\ req' = [op |-> "Api_get_trending_players", stat_type |-> stat_type,
                   line_value |-> line_value, min_games |-> min_games, limit |-> limit]
        /\ OneChoice(stat_type, line_value = 7050 /\ min_games = 1
                                    /\ limit = DefaultTrendingLimit)
        /\ resp' = Api_get_trending_players(stat_type, line_value, min_games, limit)
    /\ UNCHANGED <<db, script>>
    /\ conn' = Api_connection_after(resp')

ApiPositionAnalysis ==
    /\ Idle
    /\ \E position \in ReqPositions, stat_type \in ReqStatTypes,
          line_value \in LineValues, min_games \in ReqMinGames :
        /\ req' = [op |-> "Api_get_position_analysis", position |-> position,
                   stat_type |-> stat_type, line_value |-> line_value,
                   min_games |-> min_games]
        /\ OneChoice(stat_type, line_value = 7050 /\ min_games = 1)
        /\ resp' = Api_get_position_analysis(position, stat_type, line_value, min_games)
    /\ UNCHANGED <<db, script>>
    /\ conn' = Api_connection_after(resp')

ApiBestPicks ==
    /\ Idle
    /\ \E rates \in ReqHitRates, min_games \in ReqMinGames, limit \in {1, DefaultPicksLimit} :
        /\ req' = [op |-> "Api_get_best_picks", min_hit_rate |-> rates[1],
                   max_hit_rate |-> rates[2], min_games |-> min_games, limit |-> limit]
        /\ resp' = Api_get_best_picks(rates[1], rates[2], min_games, limit)
    /\ UNCHANGED <<db, script>>
    /\ conn' = Api_connection_after(resp')

RouterPositionAnalysis ==
    /\ Idle
    /\ \E position \in ReqPositions, stat_type \in ReqStatTypes,
          line_value \in LineValues, games_back \in ReqGroupGamesBack :
        /\ req' = [op |-> "Router_get_position_analysis", position |-> position,
                   stat_type |-> stat_type, line_value |-> line_value,
                   games_back |-> games_back]
        /\ OneChoice(stat_type, line_value = 7050 /\ games_back = DefaultGamesBack)
        /\ resp' = Router_get_position_analysis(position, stat_type, line_value, games_back)
    /\ UNCHANGED <<db, script>>
    /\ UNCHANGED conn

RouterTeamAnalysis ==
    /\ Idle
    /\ \E team \in ReqTeams, stat_type \in ReqStatTypes,
          line_value \in LineValues, games_back \in ReqGroupGamesBack :
        /\ req' = [op |-> "Router_get_team_analysis", team |-> team,
                   stat_type |-> stat_type, line_value |-> line_value,
                   games_back |-> games_back]
        /\ OneChoice(stat_type, line_value = 7050 /\ games_back = DefaultGamesBack)
        /\ resp' = Router_get_team_analysis(team, stat_type, line_value, games_back)
    /\ UNCHANGED <<db, script>>
    /\ UNCHANGED conn

RouterTrendingPlayers ==
    /\ Idle
    /\ \E stat_type \in ReqStatTypes, line_value \in LineValues,
          min_games \in ReqMinGames, games_back \in ReqGroupGamesBack,
          limit \in {1, DefaultTrendingLimit} :
        /\ req' = [op |-> "Router_get_trending_players", stat_type |-> stat_type,
                   line_value |-> line_value, min_games |-> min_games,
                   games_back |-> games_back, limit |-> limit]
        /\ OneChoice(stat_type, line_value = 7050 /\ min_games = 1
                                    /\ games_back = DefaultGamesBack
                                    /\ limit = DefaultTrendingLimit)
        /\ IF limit = DefaultTrendingLimit THEN TRUE ELSE games_back = DefaultGamesBack
        /\ resp' = Router_get_trending_players(stat_type, line_value, min_games, games_back, limit)
    /\ UNCHANGED <<db, script>>
    /\ UNCHANGED conn

RouterComparison ==
    /\ Idle
    /\ \E player_ids \in ReqPlayerLists, stat_type \in ReqStatTypes,
          line_value \in LineValues, games_back \in {1, DefaultGamesBack} :
        /\ req' = [op |-> "Router_compare_players", player_ids |-> player_ids,
                   stat_type |-> stat_type, line_value |-> line_value,
                   games_back |-> games_back]
        /\ OneChoice(stat_type, line_value = 7050 /\ games_back = DefaultGamesBack)
        /\ resp' = Router_compare_players(player_ids, stat_type, line_value, games_back)
    /\ UNCHANGED <<db, script>>
    /\ UNCHANGED conn

SyncPlayers ==
    /\ Idle
    /\ req' = [op |-> "Router_sync_players"]
    /\ resp' = Router_sync_players.resp
    /\ players' = Router_sync_players.players
    /\ UNCHANGED <<games, player_game_stats, team_changes, injured_players,
                   excluded_players, scan_order, nfl_api, autoflush, conn, script>>

\* the single-player analyses over the single-player databases
Next ==
    \/ ApiPlayerAnalysis
    \/ RouterPlayerLineAnalysis
    \/ RouterMultipleLineAnalysis
    \/ ApiGetPlayer

Spec == Init /\ [][Next]_vars

\* the group aggregations over the multi-player databases
NextGroup ==
    \/ ApiTrendingPlayers
    \/ ApiPositionAnalysis
    \/ ApiBestPicks
    \/ RouterPositionAnalysis
    \/ RouterTeamAnalysis
    \/ RouterTrendingPlayers
    \/ RouterComparison

SpecGroup == InitGroup /\ [][NextGroup]_vars

\* every operation over the multi-player databases
SpecAll == InitGroup /\ [][Next \/ NextGroup]_vars

\* a further POST /sync
SyncPlayersAgain ==
    /\ req.op = "Router_sync_players"
    /\ resp' = Router_sync_players.resp
    /\ players' = Router_sync_players.players
    /\ UNCHANGED <<games, player_game_stats, team_changes, injured_players,
                   excluded_players, scan_order, nfl_api, autoflush, conn, script, req>>

\* between two syncs the remote API lists other players, goes down or comes back
RemoteChanges ==
    /\ req.op = "Router_sync_players"
    /\ nfl_api.kind = "remote"
    /\ \E up \in BOOLEAN, ids \in SeqsUpTo(RemoteIds, MaxRemote) :
          nfl_api' = [kind |-> "remote", up |-> up,
                      players |-> [i \in DOMAIN ids |->
                                     [id |-> ids[i], position |-> "WR", team |-> "DAL"]]]
    /\ nfl_api' # nfl_api
    /\ UNCHANGED <<players, games, player_game_stats, team_changes, injured_players,
                   excluded_players, scan_order, autoflush, conn, script, req, resp>>

\* the player syncs against the remote API
NextSync ==
    \/ SyncPlayers
    \/ SyncPlayersAgain
    \/ RemoteChanges

\* the same client sends its player analysis request a second time
ApiPlayerAnalysisAgain ==
    /\ req.op = "Api_get_player_analysis"
    /\ resp' = Api_get_player_analysis(req.player_id, req.stat_type,
                                        req.line_value, req.games_back)
    /\ UNCHANGED <<db, script, req>>
    /\ conn' = Api_connection_after(resp')

RouterPlayerLineAnalysisAgain ==
    /\ req.op = "Router_get_player_line_analysis"
    /\ resp' = Router_get_player_line_analysis(req.player_id, req.stat_type,
                                                req.line_value, req.games_back)
    /\ UNCHANGED <<db, script, req>>
    /\ UNCHANGED conn

\* ORDER BY game_date DESC names no second key: among games of one date the
\* database may yield the rows in another order the next time it plans the
\* query, the stored rows being the same
Replan ==
    /\ \E g, h \in DOMAIN games : g # h /\ games[g].game_date = games[h].game_date
    /\ scan_order' = (IF scan_order = "asc" THEN "desc" ELSE "asc")
    /\ UNCHANGED <<players, games, player_game_stats, team_changes, injured_players,
                   excluded_players, nfl_api, autoflush, conn, script, req, resp>>

NextRepeat ==
    \/ ApiPlayerAnalysis
    \/ RouterPlayerLineAnalysis
    \/ ApiPlayerAnalysisAgain
    \/ RouterPlayerLineAnalysisAgain
    \/ Replan

SpecRepeat == InitPlayer /\ [][NextRepeat]_vars

SpecSync == InitSync /\ [][NextSync]_vars

(* ------------------------ the update script -------------------------- *)
\* what the script leaves alone
web == <<players, games, player_game_stats, team_changes, injured_players,
         excluded_players, scan_order, nfl_api, autoflush, conn, req, resp>>

\* the calls of the run and what each returned, in order
Called(name, result) ==
    [run EXCEPT !.calls = Append(@, [name |-> name, result |-> result])]

\* main: download_latest_2025_data() returns True, or False after an exception
Download ==
    /\ pc = "start"
    /\ \E ok \in BOOLEAN :
          /\ pc' = IF ok THEN "downloaded" ELSE "injuries"
          /\ run' = Called("download_latest_2025_data", IF ok THEN "True" ELSE "False")
    /\ UNCHANGED <<web, sql, tx>>

\* main: process_2025_data() returns the frame, or None after an exception
Process ==
    /\ pc = "downloaded"
    /\ \E ok \in BOOLEAN :
          /\ pc' = IF ok THEN "processed" ELSE "injuries"
          /\ run' = Called("process_2025_data", IF ok THEN "df" ELSE "None")
    /\ UNCHANGED <<web, sql, tx>>

\* main: extract_player_stats(df) returns the records; it catches nothing, so
\* a frame without one of the columns it reads ends main() with the exception
Extract ==
    /\ pc = "processed"
    /\ \E raised \in BOOLEAN :
          /\ pc' = IF raised THEN "crashed"
                    ELSE IF run.player_stats # <<>> THEN "update" ELSE "injuries"
          /\ run' = Called("extract_player_stats",
                           IF raised THEN "raised"
                           ELSE IF run.player_stats # <<>> THEN "records" ELSE "empty")
    /\ UNCHANGED <<web, sql, tx>>

\* a variant of the DELETE on a connection in autocommit mode
UpdateDelete_autocommit ==
    /\ pc = "update"
    /\ tx' = Upd_delete_2025_stats(sql)
    /\ sql' = Upd_delete_2025_stats(sql)
    /\ pc' = "update_games"
    /\ run' = Called("update_2025_database", "entered")
    /\ UNCHANGED web

\* update_2025_database: the DELETE, which opens the transaction
UpdateDelete ==
    /\ pc = "update"
    /\ tx' = Upd_delete_2025_stats(sql)
    /\ pc' = "update_games"
    /\ run' = Called("update_2025_database", "entered")
    /\ UNCHANGED <<web, sql>>

\* update_2025_database: the loop that adds missing games
UpdateGames ==
    /\ pc = "update_games"
    /\ tx' = Upd_insert_games(tx, run.player_stats, 1, run.unique_games)
    /\ pc' = "update_stats"
    /\ UNCHANGED <<web, sql, run>>

\* update_2025_database: the game_id mapping and the loop that adds the stats
UpdateStats ==
    /\ pc = "update_stats"
    /\ tx' = Upd_insert_stats(tx, run.player_stats, 1)
    /\ pc' = "update_commit"
    /\ UNCHANGED <<web, sql, run>>

\* update_2025_database: conn.commit(), then the summary and conn.close()
UpdateCommit ==
    /\ pc = "update_commit"
    /\ sql' = tx
    /\ tx' = <<>>
    /\ pc' = "injuries"
    /\ run' = Called("conn.commit", "done")
    /\ UNCHANGED web

\* update_2025_database: a statement raises; except: conn.rollback(), then
\* conn.close()
UpdateFails ==
    /\ pc \in {"update_games", "update_stats", "update_commit"}
    /\ tx' = <<>>
    /\ pc' = "injuries"
    /\ run' = Called("conn.rollback", "done")
    /\ UNCHANGED <<web, sql>>

\* main: update_injuries(), which replaces injured_players by the players found
\* for the scraped and the listed names, or rolls back when a statement raises
UpdateInjuries ==
    /\ pc = "injuries"
    /\ \E ok \in BOOLEAN :
          /\ sql' = IF ok THEN [sql EXCEPT !.injured = run.injuries] ELSE sql
          /\ run' = Called("update_injuries", IF ok THEN "commit" ELSE "rollback")
    /\ pc' = "finished"
    /\ UNCHANGED <<web, tx>>

NextUpdate ==
    \/ Download
    \/ Process
    \/ Extract
    \/ UpdateDelete
    \/ UpdateGames
    \/ UpdateStats
    \/ UpdateCommit
    \/ UpdateFails
    \/ UpdateInjuries

SpecUpdate == InitUpdate /\ [][NextUpdate]_vars

(* ------------------- NFLDataService.get_recent_games ------------------ *)
\* get_recent_games(weeks) has read the current season and the current week
\* and is about to enter its loop
InitRecent ==
    /\ players = <<>>
    /\ games = <<>>
    /\ player_game_stats = <<>>
    /\ NothingExcluded
    /\ SourceUnused
    /\ scan_order = "asc"
    /\ conn = "none"
    /\ req = NoRequest
    /\ resp = NoResponse
    /\ pc = "recent_loop"
    /\ sql = <<>>
    /\ tx = <<>>
    /\ \E current_season \in {2024, 2025}, current_week \in 1..SeasonWeeks,
          weeks \in 0..DefaultWeeks :
        run = [current_season |-> current_season, current_week |-> current_week,
               weeks |-> weeks, week_offset |-> 0, fetched |-> <<>>]

\* one pass of "for week_offset in range(weeks)": the week, the season and the
\* get_games call
RecentFetch ==
    /\ pc = "recent_loop"
    /\ run.week_offset < run.weeks
    /\ LET pair == Nfl_recent_week(run.current_season, run.current_week,
                                   run.week_offset)
       IN  run' = [run EXCEPT !.week_offset = @ + 1,
                              !.fetched = Append(@, [season |-> pair[1],
                                  week |-> pair[2],
                                  params |-> Nfl_get_games_params(pair[1], pair[2])])]
    /\ UNCHANGED <<web, pc, sql, tx>>

\* the loop is over: return all_games
RecentReturn ==
    /\ pc = "recent_loop"
    /\ run.week_offset >= run.weeks
    /\ pc' = "recent_done"
    /\ UNCHANGED <<web, run, sql, tx>>

NextRecent == RecentFetch \/ RecentReturn

SpecRecent == InitRecent /\ [][NextRecent]_vars

(* ====================================================================== *)
(* properties                                                             *)
(* ====================================================================== *)
PlayerOps == {"Api_get_player_analysis", "Router_get_player_line_analysis"}
MultiOp == "Router_get_multiple_line_analysis"
GroupOps == {"Api_get_trending_players", "Api_get_position_analysis",
             "Router_get_position_analysis", "Router_get_team_analysis",
             "Router_get_trending_players"}
PicksOp == "Api_get_best_picks"

Answered == resp.status = 200

\* the stat types the asked endpoint accepts
StatTypeAccepted ==
    req.stat_type \in (IF req.op = "Api_get_player_analysis" THEN ApiStatTypes ELSE StatType)

\* the observation a stat row holds for a stat type, Null when it holds none
Observation(pgs, stat_type) ==
    IF stat_type = "total_yards"
    THEN IF pgs.receiving_yards = Null /\ pgs.rushing_yards = Null THEN Null
         ELSE Some(Coalesce(pgs.receiving_yards, 0) + Coalesce(pgs.rushing_yards, 0))
    ELSE pgs[stat_type]

\* the games of the given seasons in which the player has an observation
Qualifying(player_id, stat_type, seasons) ==
    {g \in DOMAIN games :
        /\ <<player_id, g>> \in DOMAIN player_game_stats
        /\ Observation(player_game_stats[<<player_id, g>>], stat_type) # Null
        /\ games[g].season \in seasons}

AllSeasons == {SeasonOf(d) : d \in Dates}

\* the seasons the asked endpoint reads
SeasonsRead ==
    IF req.op = "Api_get_player_analysis" THEN {2024, 2025} ELSE AllSeasons

\* the player list of a group answer
GroupEntries ==
    IF req.op \in {"Api_get_trending_players", "Router_get_trending_players"}
    THEN resp.body.trending_players
    ELSE resp.body.players

ExclusionSet ==
    team_changes \cup injured_players
        \cup {e.player_id : e \in {x \in excluded_players : x.active = 1}}

\* C1: an existing player without any observation for the stat gets an answer,
\* not an error, with games_analyzed, hit_rate, average_value and median_value 0.
C1_EmptyWindowAnswersZero ==
    ( /\ req.op \in PlayerOps
      /\ req.player_id \in DOMAIN players
      /\ StatTypeAccepted
      /\ Qualifying(req.player_id, req.stat_type, AllSeasons) = {} )
    => /\ Answered
       /\ resp.body.games_analyzed = 0
       /\ resp.body.hit_rate = 0
       /\ resp.body.average_value = 0
       /\ "median_value" \in DOMAIN resp.body => resp.body.median_value = 0

\* C2: an answered player analysis with games_back = N covers the player's N
\* most recent observations, or all of them when there are fewer than N.
C2_WindowIsThePlayersOwn ==
    (req.op \in PlayerOps /\ Answered)
    => resp.body.games_analyzed =
           Min(req.games_back,
               Cardinality(Qualifying(req.player_id, req.stat_type, SeasonsRead)))

\* C3: no group answer (trending, position, team) lists a player of the
\* exclusion set.
C3_ExcludedNeverListed ==
    (req.op \in GroupOps /\ Answered)
    => \A i \in DOMAIN GroupEntries : GroupEntries[i].player_id \notin ExclusionSet

\* the (hit_rate, hits, games_analyzed) of every analysis in the answer that
\* reports its hits
CountedAnalyses ==
    LET triple(e, hits) ==
            [hit_rate |-> e.hit_rate, hits |-> hits, games_analyzed |-> e.games_analyzed]
        b == resp.body
    IN  CASE req.op = "Api_get_player_analysis" ->
                {triple(b, b.hits), triple(b.season_2025, b.season_2025.hits)}
          [] req.op = "Router_get_player_line_analysis" ->
                {triple(b, b.total_hits)}
          [] req.op = MultiOp ->
                {triple(b.line_analyses[l], b.line_analyses[l].total_hits) :
                    l \in DOMAIN b.line_analyses}
          [] req.op = "Api_get_trending_players" ->
                {triple(b.trending_players[i], b.trending_players[i].hits) :
                    i \in DOMAIN b.trending_players}
          [] req.op = "Api_get_position_analysis" ->
                {triple(b.players[i], b.players[i].hits) : i \in DOMAIN b.players}
          [] req.op = PicksOp ->
                {triple(b.picks[i], b.picks[i].hits) : i \in DOMAIN b.picks}
          [] OTHER -> {}

\* the hit rates of the group answers that report no hits
UncountedHitRates ==
    IF req.op \in {"Router_get_position_analysis", "Router_get_team_analysis",
                   "Router_get_trending_players"}
    THEN {GroupEntries[i].hit_rate : i \in DOMAIN GroupEntries}
    ELSE {}

\* C4: every hit rate of an answer, of a player or of a group, lies between 0
\* and 100, and every number of hits between 0 and the games analyzed.
C4_HitRateBounded ==
    Answered =>
        /\ \A a \in CountedAnalyses :
            /\ 0 <= a.hit_rate /\ a.hit_rate <= 100 * Scale
            /\ 0 <= a.hits /\ a.hits <= a.games_analyzed
        /\ \A h \in UncountedHitRates : 0 <= h /\ h <= 100 * Scale

\* a group answer lists a player who hit in every one of several games, and a
\* player analysis answers with a hit rate strictly between the ends
C4_Witness ==
    \/ /\ req.op = "Api_get_trending_players"
       /\ Answered
       /\ \E a \in CountedAnalyses : a.hits > 1 /\ a.hits = a.games_analyzed
    \/ /\ req.op \in PlayerOps
       /\ Answered
       /\ \E a \in CountedAnalyses : 0 < a.hits /\ a.hits < a.games_analyzed

\* the hit rate and hits the player analysis of the request gives for another line
AtLine(line_value) ==
    LET other == IF req.op = "Api_get_player_analysis"
                 THEN Api_get_player_analysis(req.player_id, req.stat_type,
                                              line_value, req.games_back)
                 ELSE Router_get_player_line_analysis(req.player_id, req.stat_type,
                                              line_value, req.games_back)
    IN  [status |-> other.status,
         hit_rate |-> IF other.status = 200 THEN other.body.hit_rate ELSE -1,
         hits |-> IF other.status # 200 THEN -1
                  ELSE IF req.op = "Api_get_player_analysis" THEN other.body.hits
                  ELSE other.body.total_hits]

\* C5: with player, stat type, games_back and stored data fixed, a higher line
\* never has a higher hit rate or more hits than a lower one.
C5_HitRateFallsWithLine ==
    /\ (req.op \in PlayerOps /\ Answered) =>
          \A l \in LineValues :
              l >= req.line_value =>
                  LET higher == AtLine(l)
                  IN  /\ higher.status = 200
                      /\ higher.hit_rate <= resp.body.hit_rate
                      /\ higher.hits <=
                            (IF req.op = "Api_get_player_analysis"
                             THEN resp.body.hits ELSE resp.body.total_hits)
    /\ (req.op = MultiOp /\ Answered) =>
          \A l1, l2 \in DOMAIN resp.body.line_analyses :
              l1 <= l2 =>
                  /\ resp.body.line_analyses[l2].hit_rate <= resp.body.line_analyses[l1].hit_rate
                  /\ resp.body.line_analyses[l2].total_hits <= resp.body.line_analyses[l1].total_hits

\* an answered analysis with hits whose hit rate is lower at a higher line
C5_Witness ==
    /\ req.op = "Router_get_player_line_analysis"
    /\ Answered
    /\ resp.body.total_hits > 0
    /\ \E l \in LineValues :
        /\ l > req.line_value
        /\ AtLine(l).hit_rate < resp.body.hit_rate
        /\ AtLine(l).hit_rate > 0

Observations(player_id, stat_type) ==
    LET ord == ByDateDesc(Qualifying(player_id, stat_type, AllSeasons))
    IN  [i \in DOMAIN ord |->
            Observation(player_game_stats[<<player_id, ord[i]>>], stat_type)[1]]

\* C7: a player whose receiving-yards observations are 125.5 and 89.0, most
\* recent first, analysed at line 100 over the last 20 games, gets
\* games_analyzed 2, one hit, hit rate 50.0, average and median 107.25.
C7_MockScenario ==
    ( /\ req.op \in PlayerOps
      /\ req.player_id \in DOMAIN players
      /\ req.stat_type = "receiving_yards"
      /\ req.line_value = 100 * Scale
      /\ req.games_back = DefaultGamesBack
      /\ Observations(req.player_id, req.stat_type) = <<12550, 8900>>
      /\ Qualifying(req.player_id, req.stat_type, AllSeasons)
            = Qualifying(req.player_id, req.stat_type, {2024, 2025}) )
    => /\ Answered
       /\ resp.body.games_analyzed = 2
       /\ (IF req.op = "Api_get_player_analysis"
           THEN resp.body.hits ELSE resp.body.total_hits) = 1
       /\ resp.body.hit_rate = 5000
       /\ resp.body.average_value = 10725
       /\ "median_value" \in DOMAIN resp.body => resp.body.median_value = 10725

\* C8: a group answer lists its players by falling hit rate, and of two players
\* with one hit rate and different games_analyzed the one with more games first.
C8_RankedByHitRateThenGames ==
    (req.op \in GroupOps /\ Answered) =>
        \A i, j \in DOMAIN GroupEntries :
            i < j =>
                /\ GroupEntries[i].hit_rate >= GroupEntries[j].hit_rate
                /\ ( /\ GroupEntries[i].hit_rate = GroupEntries[j].hit_rate
                     /\ GroupEntries[i].games_analyzed # GroupEntries[j].games_analyzed )
                   => GroupEntries[i].games_analyzed > GroupEntries[j].games_analyzed

\* the sum of the player's observations of the seasons 2024 and 2025
SeasonSum(player_id, stat_type) ==
    LET ord == ByIdDesc(Qualifying(player_id, stat_type, {2024, 2025}))
    IN  SeqSum([i \in DOMAIN ord |->
            Observation(player_game_stats[<<player_id, ord[i]>>], stat_type)[1]])

\* line_value within [0.75, 1.25] times the player's average observation
InBand(player_id, stat_type, line_value) ==
    LET n == Cardinality(Qualifying(player_id, stat_type, {2024, 2025}))
    IN  /\ n > 0
        /\ 4 * line_value * n >= 3 * SeasonSum(player_id, stat_type)
        /\ 4 * line_value * n <= 5 * SeasonSum(player_id, stat_type)

\* C9: every pick get_best_picks returns has its line within 0.75 and 1.25
\* times the player's average for the stat.
C9_PicksNearAverage ==
    (req.op = PicksOp /\ Answered) =>
        \A i \in DOMAIN resp.body.picks :
            InBand(resp.body.picks[i].player_id, resp.body.picks[i].stat_type,
                   resp.body.picks[i].line_value)

\* picks are returned, and a player, stat and line with enough games and the
\* hit rate in range, but the line outside the band, is not among them
C9_Witness ==
    /\ req.op = PicksOp
    /\ Answered
    /\ req.limit = DefaultPicksLimit
    /\ resp.body.count > 0
    /\ \E p \in DOMAIN players, e \in DOMAIN position_stats :
        \E l \in DOMAIN position_stats[e].line_values :
            LET stat == position_stats[e].stat_type
                line == position_stats[e].line_values[l]
                Q == Qualifying(p, stat, {2024, 2025})
                hits == Cardinality({g \in Q :
                            Observation(player_game_stats[<<p, g>>], stat)[1] >= line})
            IN  /\ players[p].position = position_stats[e].position
                /\ p \notin ExclusionSet
                /\ Cardinality(Q) >= req.min_games
                /\ Cardinality(Q) > 0
                /\ hits * 100 * Scale >= req.min_hit_rate * Cardinality(Q)
                /\ hits * 100 * Scale <= req.max_hit_rate * Cardinality(Q)
                /\ ~InBand(p, stat, line)
                /\ \A i \in DOMAIN resp.body.picks :
                    ~ /\ resp.body.picks[i].player_id = p
                      /\ resp.body.picks[i].stat_type = stat
                      /\ resp.body.picks[i].line_value = line

\* C10: a player analysis or multiple-line analysis of a player that does not
\* exist answers not found, never with a result.
C10_UnknownPlayerNotFound ==
    ( /\ req.op \in PlayerOps \cup {MultiOp}
      /\ req.player_id \notin DOMAIN players
      /\ StatTypeAccepted
      /\ req.op = MultiOp => req.line_values # <<>> )
    => resp.status = 404

AnalysisOps == PlayerOps \cup {MultiOp} \cup GroupOps

\* the answer is an error of the client class (4xx)
ClientInputError == resp.status \in 400..499

\* C11: every analysis endpoint answers a stat type that neither stack
\* recognises with a client-input error, never with a result or with another
\* failure.
C11_UnknownStatTypeRejected ==
    ( /\ req.op \in AnalysisOps
      /\ req.stat_type \notin ApiStatTypes \cup StatType )
    => ClientInputError

\* C12: a request for a stat type every endpoint knows, with games_back or
\* min_games not positive or with a line list that does not parse, is answered
\* with a client-input error.
C12_BadParameterRejected ==
    ( /\ "stat_type" \in DOMAIN req => req.stat_type \in StatType
      /\ \/ "games_back" \in DOMAIN req /\ req.games_back <= 0
         \/ "min_games" \in DOMAIN req /\ req.min_games <= 0
         \/ req.op = MultiOp /\ req.line_values = <<>> )
    => ClientInputError

\* C13: a sync whose fetch from the remote API failed answers with an error,
\* never as if the API had listed no players.
C13_FetchFailureSurfaces ==
    ( /\ req.op = "Router_sync_players"
      /\ nfl_api.kind = "remote"
      /\ ~nfl_api.up )
    => resp.status >= 500

\* the player's observations for the asked stat type, over all stored games
StoredObservations ==
    {Observation(player_game_stats[<<req.player_id, g>>], req.stat_type)[1] :
        g \in Qualifying(req.player_id, req.stat_type, AllSeasons)}

\* C14: an analysis of a stored player for an accepted stat type never fails on
\* a stat row with absent fields: it is answered, and the answer counts at most
\* the games holding an observation, with an average no lower than the least
\* observation (an absent value is not averaged in as a zero).
C14_AbsentNeverCounted ==
    ( /\ req.op \in PlayerOps
      /\ req.player_id \in DOMAIN players
      /\ StatTypeAccepted )
    => /\ resp.status < 500
       /\ Answered =>
            /\ resp.body.games_analyzed
                    <= Cardinality(Qualifying(req.player_id, req.stat_type, AllSeasons))
            /\ resp.body.games_analyzed > 0 =>
                    \E v \in StoredObservations : v <= resp.body.average_value

\* C15: in an answered total_yards analysis every listed game carries the
\* rushing yards plus the receiving yards of that game's own stat row, and its
\* hit flag tells whether that sum reaches the line (30 + 45 = 75 hits 70.5).
C15_TotalYardsIsTheSum ==
    ( /\ req.op = "Api_get_player_analysis"
      /\ req.stat_type = "total_yards"
      /\ Answered )
    => \A i \in DOMAIN resp.body.games :
          LET entry == resp.body.games[i]
              pgs == player_game_stats[<<req.player_id, entry.game_id>>]
              rushing == Coalesce(pgs.rushing_yards, 0)
              receiving == Coalesce(pgs.receiving_yards, 0)
          IN  /\ entry.stat_value = rushing + receiving
              /\ entry.hit = (rushing + receiving >= req.line_value)

C15_Witness ==
    /\ req.op = "Api_get_player_analysis"
    /\ req.stat_type = "total_yards"
    /\ Answered
    /\ req.line_value = 7050
    /\ \E i \in DOMAIN resp.body.games :
          LET entry == resp.body.games[i]
              pgs == player_game_stats[<<req.player_id, entry.game_id>>]
          IN  /\ pgs.rushing_yards = Some(30 * Scale)
              /\ pgs.receiving_yards = Some(45 * Scale)
              /\ entry.stat_value = 75 * Scale
              /\ entry.hit

\* C16: a player line analysis sent again with the same arguments, over the
\* same stored rows, gets the answer it got before.
C16_RepeatedCallSameAnswer ==
    [][ ( /\ req.op \in PlayerOps
          /\ req' = req
          /\ <<players, games, player_game_stats>>' = <<players, games, player_game_stats>> )
        => resp' = resp ]_vars

\* the stat values of the games an answered player analysis lists
WindowValues ==
    LET listed == resp.body.games
        present == SelectSeq(listed, LAMBDA entry :
                        req.op = "Api_get_player_analysis" \/ entry.stat_value # Null)
    IN  [i \in DOMAIN present |->
            IF req.op = "Api_get_player_analysis"
            THEN present[i].stat_value
            ELSE present[i].stat_value[1]]

\* the hit count an answered player analysis reports
ReportedHits ==
    IF req.op = "Api_get_player_analysis" THEN resp.body.hits ELSE resp.body.total_hits

C18_BreakdownIsTheWindow ==
    ( /\ req.op \in PlayerOps
      /\ Answered )
    => LET listed == resp.body.games
       IN  /\ Len(listed) = resp.body.games_analyzed
           /\ \A i, j \in DOMAIN listed :
                 i < j => listed[i].game_date >= listed[j].game_date
           /\ \A i \in DOMAIN listed :
                 /\ "hit" \in DOMAIN listed[i]
                 /\ listed[i].hit = (listed[i].stat_value >= req.line_value)
           /\ Cardinality({i \in DOMAIN listed : listed[i].hit}) = ReportedHits

\* the group endpoints that take min_games
MinGamesOps == {"Api_get_trending_players", "Api_get_position_analysis",
                "Router_get_trending_players"}

\* the players the asked group endpoint draws from
Candidates ==
    IF req.op = "Api_get_position_analysis"
    THEN {p \in DOMAIN players : players[p].position = req.position}
    ELSE DOMAIN players

\* the games_analyzed of a candidate: its observations of the seasons 2024 and
\* 2025 for the SQL endpoints, its line analysis for the router
CandidateGames(p) ==
    IF req.op = "Router_get_trending_players"
    THEN Svc_get_player_line_analysis(p, req.stat_type, req.line_value,
                                      req.games_back).games_analyzed
    ELSE Cardinality(Qualifying(p, req.stat_type, {2024, 2025}))

\* the hit rate the asked endpoint computes for a candidate
CandidateHitRate(p) ==
    IF req.op = "Router_get_trending_players"
    THEN Svc_get_player_line_analysis(p, req.stat_type, req.line_value,
                                      req.games_back).hit_rate
    ELSE Api_group_row(p, req.stat_type, req.line_value).hit_rate

\* the candidates outside the exclusion set with min_games games or more
Due == {p \in Candidates \ ExclusionSet : CandidateGames(p) >= req.min_games}

Listed == {GroupEntries[i].player_id : i \in DOMAIN GroupEntries}

\* C19 as stated: no listed player has fewer than min_games games, and every
\* candidate outside the exclusion set with min_games games or more is listed.
C19_Original ==
    (req.op \in MinGamesOps /\ Answered)
    => /\ \A i \in DOMAIN GroupEntries : GroupEntries[i].games_analyzed >= req.min_games
       /\ Due \subseteq Listed

\* C19: no listed player has fewer than min_games games, and every candidate
\* outside the exclusion set with min_games games or more is listed unless a
\* trending answer is full: it then holds limit players, none ranked below a
\* player left out.
C19_MinGamesFilter ==
    (req.op \in MinGamesOps /\ Answered)
    => LET entries == GroupEntries
           left_out == Due \ Listed
       IN  /\ \A i \in DOMAIN entries : entries[i].games_analyzed >= req.min_games
           /\ \/ left_out = {}
              \/ /\ "limit" \in DOMAIN req
                 /\ Len(entries) = req.limit
                 /\ \A p \in left_out : \A i \in DOMAIN entries :
                        entries[i].hit_rate >= CandidateHitRate(p)

\* a candidate with too few games is left out, one with exactly min_games is in
C19_Witness ==
    /\ req.op \in MinGamesOps
    /\ Answered
    /\ \E p \in Candidates \ ExclusionSet :
          /\ CandidateGames(p) > 0
          /\ CandidateGames(p) < req.min_games
          /\ p \notin Listed
    /\ \E i \in DOMAIN GroupEntries : GroupEntries[i].games_analyzed = req.min_games

\* a (player, stat type, line) of the table of get_best_picks taken as a pick
Tuple(p, e, l) ==
    [player_id |-> p, stat_type |-> position_stats[e].stat_type,
     line_value |-> position_stats[e].line_values[l]]

\* the hit rate of a player's observations of 2024 and 2025 against a line
TupleHitRate(t) ==
    LET Q == Qualifying(t.player_id, t.stat_type, {2024, 2025})
        hits == Cardinality({g \in Q :
                    Observation(player_game_stats[<<t.player_id, g>>], t.stat_type)[1]
                        >= t.line_value})
    IN  SqlRound(100 * Scale * hits, Cardinality(Q))

\* the tuples of the table that qualify for the asked ranges
QualifyingTuples ==
    {t \in UNION {{Tuple(p, e, l) : l \in DOMAIN position_stats[e].line_values} :
                    <<p, e>> \in {x \in (DOMAIN players) \X (DOMAIN position_stats) :
                                    players[x[1]].position = position_stats[x[2]].position}} :
        /\ t.player_id \notin ExclusionSet
        /\ Qualifying(t.player_id, t.stat_type, {2024, 2025}) # {}
        /\ Cardinality(Qualifying(t.player_id, t.stat_type, {2024, 2025})) >= req.min_games
        /\ TupleHitRate(t) >= req.min_hit_rate
        /\ TupleHitRate(t) <= req.max_hit_rate
        /\ InBand(t.player_id, t.stat_type, t.line_value)}

\* the picks of the answer as tuples
PickedTuples ==
    {[player_id |-> resp.body.picks[i].player_id,
      stat_type |-> resp.body.picks[i].stat_type,
      line_value |-> resp.body.picks[i].line_value] : i \in DOMAIN resp.body.picks}

\* C20: the picks of get_best_picks are distinct qualifying tuples of all the
\* combinations, each with its hit rate within the asked range and min_games
\* games or more, listed by falling hit rate; they are all the qualifying tuples
\* or, when there are more than limit, limit of them with no tuple left out
\* ranked above a pick; count is the number of picks.
C20_BestPicksMergedAndCut ==
    (req.op = PicksOp /\ Answered)
    => LET picks == resp.body.picks
           qualifying == QualifyingTuples
           picked == PickedTuples
       IN  /\ \A i \in DOMAIN picks :
                 /\ picks[i].hit_rate >= req.min_hit_rate
                 /\ picks[i].hit_rate <= req.max_hit_rate
                 /\ picks[i].games_analyzed >= req.min_games
           /\ \A i, j \in DOMAIN picks : i < j => picks[i].hit_rate >= picks[j].hit_rate
           /\ Len(picks) = Min(req.limit, Cardinality(qualifying))
           /\ Cardinality(picked) = Len(picks)
           /\ picked \subseteq qualifying
           /\ \A t \in qualifying \ picked : \A i \in DOMAIN picks :
                 picks[i].hit_rate >= TupleHitRate(t)
           /\ resp.body.count = Len(picks)

\* more tuples qualify than the limit allows: the answer is cut to the limit
C20_Witness ==
    /\ req.op = PicksOp
    /\ Answered
    /\ Cardinality(QualifyingTuples) > req.limit
    /\ Len(resp.body.picks) = req.limit
    /\ \E t \in QualifyingTuples \ PickedTuples :
          t.stat_type # resp.body.picks[1].stat_type

\* the entries of an answered group or picks query of the SQL API, each with
\* the stat type and line it was computed for
ApiGroupEntries ==
    LET with(e, stat_type, line_value) ==
            [player_id |-> e.player_id, stat_type |-> stat_type, line_value |-> line_value,
             games_analyzed |-> e.games_analyzed, hits |-> e.hits,
             average_value |-> e.average_value]
        b == resp.body
    IN  CASE req.op = "Api_get_trending_players" ->
                {with(b.trending_players[i], req.stat_type, req.line_value) :
                    i \in DOMAIN b.trending_players}
          [] req.op = "Api_get_position_analysis" ->
                {with(b.players[i], req.stat_type, req.line_value) : i \in DOMAIN b.players}
          [] req.op = PicksOp ->
                {with(b.picks[i], b.picks[i].stat_type, b.picks[i].line_value) :
                    i \in DOMAIN b.picks}
          [] OTHER -> {}

\* the player's observations of 2024 and 2025 that reach the line
SeasonHits(player_id, stat_type, line_value) ==
    Cardinality({g \in Qualifying(player_id, stat_type, {2024, 2025}) :
        Observation(player_game_stats[<<player_id, g>>], stat_type)[1] >= line_value})

C22_OneEntryPerLine ==
    (req.op = MultiOp /\ Answered) =>
        LET la == resp.body.line_analyses
            supplied == {req.line_values[i] : i \in DOMAIN req.line_values}
        IN  /\ DOMAIN la = supplied
            /\ \A l \in supplied :
                  LET single == Router_get_player_line_analysis(req.player_id, req.stat_type,
                                                                l, req.games_back)
                  IN  single.status = 200 /\ la[l] = single.body

\* two different lines answered over analysed games, with different entries
C22_Witness ==
    /\ req.op = MultiOp
    /\ Answered
    /\ Cardinality(DOMAIN resp.body.line_analyses) = 2
    /\ resp.body.games_analyzed > 0
    /\ \E l1, l2 \in DOMAIN resp.body.line_analyses :
          resp.body.line_analyses[l1].total_hits # resp.body.line_analyses[l2].total_hits

\* every analysis operation of the model
AllAnalysisOps == AnalysisOps \cup {PicksOp, "Router_compare_players"}

StoredData ==
    <<players, games, player_game_stats, team_changes, injured_players, excluded_players>>

\* C23: a step that handles an analysis request, answered with a result or
\* with an error, leaves the players, the games, the stat rows and the
\* exclusion tables as they were.
C23_AnalysisLeavesStoreAlone ==
    [][ (req'.op \in AllAnalysisOps /\ req' # req) => StoredData' = StoredData ]_vars

\* an analysis answered with an error over a store that holds stat rows
C23_Witness ==
    /\ req.op \in AllAnalysisOps
    /\ resp.status >= 400
    /\ DOMAIN player_game_stats # {}

\* C24: when an endpoint of working_api has finished, with a result or with an
\* error answer, the connection it opened is closed.
C24_ConnectionClosed == conn # "open"

\* C25: no two stored players ever share an nfl_id, and a sync step keeps every
\* stored row as it is: a sync that is answered adds as many rows, after the
\* stored ones, as it reports, and a sync that fails adds none.
C25_SyncKeepsNflIdsUnique ==
    /\ [](\A i, j \in DOMAIN players : players[i].nfl_id = players[j].nfl_id => i = j)
    /\ [][ (req'.op = "Router_sync_players" /\ <<req, resp>>' # <<req, resp>>) =>
             /\ SubSeq(players', 1, Len(players)) = players
             /\ IF resp'.status = 200
                THEN Len(players') = Len(players) + resp'.body.synced_count
                ELSE players' = players ]_vars

\* a sync that added a player and skipped a listed one already stored
C25_Witness ==
    /\ req.op = "Router_sync_players"
    /\ Answered
    /\ resp.body.synced_count > 0
    /\ resp.body.synced_count < resp.body.total_players
    /\ Len(players) > resp.body.synced_count

(* ------------------------------ C26 ---------------------------------- *)
\* the last call of the run so far
LastCall == IF run.calls = <<>> THEN "none" ELSE run.calls[Len(run.calls)].name

\* the stat rows of t stored under a game of season 2025
Stats2025(t) ==
    {k \in DOMAIN t.stats :
        \E i \in DOMAIN t.games :
            t.games[i].game_id = t.stats[k].game_id /\ t.games[i].season = 2025}

\* C26: update_2025_database replaces the 2025 stats atomically. The stored
\* games and stats change in the commit step only, so the DELETE and the
\* inserts become visible together; a run that rolls back leaves the stored
\* stats and games as they were; and after the commit every supplied record is
\* stored exactly once and no earlier 2025 stat row is left.
C26_ReplaceIsAtomic ==
    [][ /\ (pc \in {"update", "update_games", "update_stats", "update_commit"}
             /\ ~ (pc = "update_commit" /\ LastCall' = "conn.commit"))
            => (sql'.games = sql.games /\ sql'.stats = sql.stats)
        /\ (pc = "update_commit" /\ LastCall' = "conn.commit")
            => /\ \A i \in DOMAIN run.player_stats :
                    Cardinality({k \in DOMAIN sql'.stats :
                        /\ sql'.stats[k].record = i
                        /\ sql'.stats[k].player_id = run.player_stats[i].player_id}) = 1
               /\ \A k \in Stats2025(sql') : sql'.stats[k].record # 0
               /\ Len(sql'.stats) =
                    Len(sql.stats) - Cardinality(Stats2025(sql)) + Len(run.player_stats)
      ]_vars

\* a run over the filled tables has committed its two records
C26_Witness ==
    /\ LastCall = "conn.commit"
    /\ Len(run.player_stats) = MaxRecords
    /\ \E i \in DOMAIN sql.games : sql.games[i].season = 2024
    /\ Stats2025(sql) # {}

(* ------------------------------ C27 ---------------------------------- *)
\* the stored stat rows written by this run
WrittenRows == {k \in DOMAIN sql.stats : sql.stats[k].record # 0}

\* C27: each stat record is stored under a game row whose (season, week,
\* game_date) are the record's own, and records of different source games
\* are never stored under one stored game_id.
C27_OneStoredGamePerSourceGame ==
    \A a, b \in WrittenRows :
        LET stat_a == run.player_stats[sql.stats[a].record]
            stat_b == run.player_stats[sql.stats[b].record]
        IN  /\ \E i \in DOMAIN sql.games :
                  /\ sql.games[i].game_id = sql.stats[a].game_id
                  /\ sql.games[i].season = stat_a.season
                  /\ sql.games[i].week = stat_a.week
                  /\ sql.games[i].game_date = stat_a.game_date
            /\ stat_a.game_id # stat_b.game_id
                  => sql.stats[a].game_id # sql.stats[b].game_id

(* ------------------------------ C28 ---------------------------------- *)
\* C28: for a current week in 1..18 and a weeks count up to 20, every fetch of
\* get_recent_games is for a week in 1..18 of the current season or the one
\* before it, each fetch is for an earlier (season, week) than the fetch
\* before it, and so no (season, week) is fetched twice.
C28_RecentWeeksInRange ==
    /\ \A k \in DOMAIN run.fetched :
          /\ 1 <= run.fetched[k].week
          /\ run.fetched[k].week <= SeasonWeeks
          /\ run.fetched[k].season \in {run.current_season, run.current_season - 1}
    /\ \A k, l \in DOMAIN run.fetched :
          k < l => \/ run.fetched[l].season < run.fetched[k].season
                   \/ /\ run.fetched[l].season = run.fetched[k].season
                      /\ run.fetched[l].week < run.fetched[k].week

(* ------------------------------ C29 ---------------------------------- *)
\* the listed games of an answered SQL player analysis that are of season 2025
Listed2025 ==
    {i \in DOMAIN resp.body.games : resp.body.games[i].season = 2025}

\* C29: the season_2025 block of an answered SQL player analysis is computed
\* over exactly the window's games of season 2025: its games_analyzed and hits
\* count those games and so are at most the overall ones, its hit rate is
\* 100 x hits / games to the nearest hundredth and within 0..100, its average
\* is their mean, and a window without a 2025 game gives a rate and an
\* average of 0.
C29_Season2025Block ==
    ( /\ req.op = "Api_get_player_analysis"
      /\ Answered )
    => LET block == resp.body.season_2025
           listed == resp.body.games
           n == Cardinality(Listed2025)
           hits == Cardinality({i \in Listed2025 : listed[i].hit})
           total == SeqSum([i \in DOMAIN listed |->
                        IF i \in Listed2025 THEN listed[i].stat_value ELSE 0])
           rate_off == block.hit_rate * n - 100 * Scale * hits
           mean_off == block.average_value * n - total
       IN  /\ block.games_analyzed = n
           /\ block.hits = hits
           /\ block.games_analyzed <= resp.body.games_analyzed
           /\ block.hits <= resp.body.hits
           /\ block.hit_rate >= 0 /\ block.hit_rate <= 100 * Scale
           /\ IF n = 0
              THEN block.hit_rate = 0 /\ block.average_value = 0
              ELSE /\ 2 * rate_off <= n /\ 2 * rate_off >= -n
                   /\ 2 * mean_off <= n /\ 2 * mean_off >= -n

\* the window holds games of both seasons and a 2025 game that hit
C29_Witness ==
    /\ req.op = "Api_get_player_analysis"
    /\ Answered
    /\ resp.body.season_2025.games_analyzed > 0
    /\ resp.body.season_2025.games_analyzed < resp.body.games_analyzed
    /\ resp.body.season_2025.hits > 0
    /\ resp.body.season_2025.hits < resp.body.hits

\* the window holds no game of season 2025
C29_EmptySeason ==
    /\ req.op = "Api_get_player_analysis"
    /\ Answered
    /\ resp.body.season_2025.games_analyzed = 0
    /\ resp.body.hits > 0

(* ------------------------------ C30 ---------------------------------- *)
\* the positions of the calls of a name
CallsOf(name) == {k \in DOMAIN run.calls : run.calls[k].name = name}

\* C30: in every run of main() update_injuries is invoked exactly once, after
\* the 2025 stats step has finished or was given up, and
\* update_2025_database is attempted only after a download, a processing and
\* an extraction that succeeded and gave a non-empty list.
C30_InjuriesAlwaysUpdated ==
    /\ pc \in {"finished", "crashed"}
          => /\ Cardinality(CallsOf("update_injuries")) = 1
             /\ LastCall = "update_injuries"
    /\ CallsOf("update_2025_database") # {}
          => /\ Len(run.calls) >= 4
             /\ run.calls[1] = [name |-> "download_latest_2025_data", result |-> "True"]
             /\ run.calls[2] = [name |-> "process_2025_data", result |-> "df"]
             /\ run.calls[3] = [name |-> "extract_player_stats", result |-> "records"]
             /\ CallsOf("update_2025_database") = {4}
             /\ run.player_stats # <<>>

====
